---------------------------- MODULE Spec2Model ----------------------------
(***************************************************************************)
(* A model of the DAPHNE factoid extractor (daphne_lib/extractor.py,       *)
(* daphne_lib/utils.py, daphne_lib/config.py).                             *)
(*                                                                         *)
(* Python strings are sequences of one-character strings, so that the      *)
(* cleaning functions are computed character by character as the code     *)
(* computes them.  Python dicts are functions (records, when the keys are  *)
(* field names); a key that is missing from an input document is missing   *)
(* from the record's DOMAIN and read with Get, as the code reads it with   *)
(* dict.get.                                                               *)
(***************************************************************************)
EXTENDS Integers, Sequences, FiniteSets, TLC

----------------------------------------------------------------------------
(* Characters and Python's str methods                                     *)

\* Python's None; every real character is a one-character string, so this
\* value is no string of the model.
None == <<"None">>

\* "if x:" on a value that is None or a str
Truthy(x) == x # None /\ x # <<>>

LowerLetters ==
    <<"a","b","c","d","e","f","g","h","i","j","k","l","m","n","o","p","q",
      "r","s","t","u","v","w","x","y","z","é","è","ç">>

UpperLetters ==
    <<"A","B","C","D","E","F","G","H","I","J","K","L","M","N","O","P","Q",
      "R","S","T","U","V","W","X","Y","Z","É","È","Ç">>

\* the ASCII letter left by NFD decomposition followed by encode("ascii", "ignore")
AsciiLetters ==
    <<"a","b","c","d","e","f","g","h","i","j","k","l","m","n","o","p","q",
      "r","s","t","u","v","w","x","y","z","e","e","c">>

Range(f) == {f[i] : i \in DOMAIN f}

IndexOf(c, tbl) == CHOOSE i \in DOMAIN tbl : tbl[i] = c

Whitespace == {" ", "\t"}

Digits == {"0","1","2","3","4","5","6","7","8","9"}

\* the non-ASCII characters of the model that have no ASCII decomposition
NonAscii == {"£"}

UpperChar(c) == IF c \in Range(LowerLetters)
                THEN UpperLetters[IndexOf(c, LowerLetters)] ELSE c

LowerChar(c) == IF c \in Range(UpperLetters)
                THEN LowerLetters[IndexOf(c, UpperLetters)] ELSE c

\* str.upper()
Upper(t) == [i \in 1..Len(t) |-> UpperChar(t[i])]

\* str.lower()
Lower(t) == [i \in 1..Len(t) |-> LowerChar(t[i])]

\* str.replace(c, '') for every c of chars
RemoveChars(t, chars) == SelectSeq(t, LAMBDA c : c \notin chars)

\* str.replace(c, d) for one character c
ReplaceChar(t, c, d) == [i \in 1..Len(t) |-> IF t[i] = c THEN d ELSE t[i]]

RECURSIVE LStrip(_)
\* str.lstrip()
LStrip(t) == IF t # <<>> /\ Head(t) \in Whitespace THEN LStrip(Tail(t)) ELSE t

RECURSIVE RStripSet(_, _)
\* str.rstrip(chars)
RStripSet(t, chars) ==
    IF t # <<>> /\ t[Len(t)] \in chars
    THEN RStripSet(SubSeq(t, 1, Len(t) - 1), chars) ELSE t

\* str.strip()
Strip(t) == LStrip(RStripSet(t, Whitespace))

\* the least j >= i with t[j] not whitespace, Len(t)+1 when there is none
RECURSIVE SkipSpaces(_, _)
SkipSpaces(t, i) ==
    IF i <= Len(t) /\ t[i] \in Whitespace THEN SkipSpaces(t, i + 1) ELSE i

RECURSIVE SubEmptyParens(_)
\* re.sub(r'\(\s*\)', '', t)
SubEmptyParens(t) ==
    IF t = <<>> THEN <<>>
    ELSE LET j == SkipSpaces(t, 2)
         IN IF t[1] = "(" /\ j <= Len(t) /\ t[j] = ")"
            THEN SubEmptyParens(SubSeq(t, j + 1, Len(t)))
            ELSE <<t[1]>> \o SubEmptyParens(Tail(t))

RECURSIVE SubSpaceRuns(_, _)
\* re.sub(r'\s{min,}', ' ', t) for min = 1 (\s+) or min = 2 (\s{2,})
SubSpaceRuns(t, min) ==
    IF t = <<>> THEN <<>>
    ELSE LET j == SkipSpaces(t, 1)
         IN IF j - 1 >= min
            THEN <<" ">> \o SubSpaceRuns(SubSeq(t, j, Len(t)), min)
            ELSE <<t[1]>> \o SubSpaceRuns(Tail(t), min)

\* whether w occurs in t at position i
StartsAt(t, i, w) ==
    i + Len(w) - 1 <= Len(t) /\ SubSeq(t, i, i + Len(w) - 1) = w

----------------------------------------------------------------------------
(* config.py                                                               *)

STOP_WORDS ==
    { <<"I","N","C","O","N","N","U">>,
      <<"N","O","N"," ","S","P","É","C","I","F","I","É">>,
      <<"N","O","N"," ","S","P","E","C","I","F","I","E">>,
      <<"?">>,
      <<>> }

FACTOID_TYPES ==
    { "BIRTH", "DIOCESE_ORIGIN", "UNIVERSITY_STUDY", "ACADEMIC_GRADE",
      "COLLEGE_MEMBERSHIP", "SECULAR_POSITION", "REGULAR_ORDER",
      "UNIVERSITY_TEACHING", "FAMILY_RELATION", "STUDENT_TEACHER",
      "AUTHORSHIP", "ACTIVITY_PERIOD", "LIFE_PERIOD" }

ROLES ==
    { "SUBJECT", "STUDENT", "TEACHER", "MEMBER", "AUTHOR", "FAMILY_MEMBER",
      "RELATED_PERSON", "HOLDER" }

----------------------------------------------------------------------------
(* utils.py: TextCleaner                                                   *)

\* None if not t or t.upper() in STOP_WORDS else t
OrNone(t) == IF t = <<>> \/ Upper(t) \in STOP_WORDS THEN None ELSE t

\* TextCleaner.clean
clean(text) ==
    IF text = None THEN None
    ELSE LET t1 == RemoveChars(Strip(text), {"$", "£", "*"})
             t2 == RemoveChars(t1, {"?"})
             t3 == SubEmptyParens(t2)
             t4 == SubSpaceRuns(t3, 2)
         IN OrNone(Strip(RStripSet(RStripSet(RStripSet(t4, {";"}), {","}), {"."})))

RECURSIVE SubPercentSpans(_)
\* re.sub(r'%[^%]*%', '', n)
SubPercentSpans(n) ==
    IF n = <<>> THEN <<>>
    ELSE IF n[1] = "%" /\ \E j \in 2..Len(n) : n[j] = "%"
         THEN LET j == CHOOSE k \in 2..Len(n) :
                          n[k] = "%" /\ \A l \in 2..(k - 1) : n[l] # "%"
              IN SubPercentSpans(SubSeq(n, j + 1, Len(n)))
         ELSE <<n[1]>> \o SubPercentSpans(Tail(n))

\* the character class [\d\-\.\s:/c]
CodeChars == Digits \cup Whitespace \cup {"-", ".", ":", "/", "c"}

RECURSIVE SkipCode(_, _)
SkipCode(n, i) ==
    IF i <= Len(n) /\ n[i] \in CodeChars THEN SkipCode(n, i + 1) ELSE i

RECURSIVE SubPercentCodes(_)
\* re.sub(r'%[\d\-\.\s:/c]{2,}', '', n)
SubPercentCodes(n) ==
    IF n = <<>> THEN <<>>
    ELSE LET j == SkipCode(n, 2)
         IN IF n[1] = "%" /\ j - 2 >= 2
            THEN SubPercentCodes(SubSeq(n, j, Len(n)))
            ELSE <<n[1]>> \o SubPercentCodes(Tail(n))

\* the alternation (Nation|Faculté|Université|Collège|Studium)
Keywords ==
    { <<"N","a","t","i","o","n">>,
      <<"F","a","c","u","l","t","é">>,
      <<"U","n","i","v","e","r","s","i","t","é">>,
      <<"C","o","l","l","è","g","e">>,
      <<"S","t","u","d","i","u","m">> }

\* the character class [a-zA-ZÀ-ÿ]
Letters == Range(LowerLetters) \cup Range(UpperLetters)

RECURSIVE SpaceKeywords(_, _)
\* re.sub(r'(?<=[a-zA-ZÀ-ÿ])' + keywords, r' \1', n), scanning from position i
SpaceKeywords(n, i) ==
    IF i > Len(n) THEN <<>>
    ELSE IF i > 1 /\ n[i - 1] \in Letters /\ \E w \in Keywords : StartsAt(n, i, w)
         THEN LET w == CHOOSE k \in Keywords : StartsAt(n, i, k)
              IN <<" ">> \o w \o SpaceKeywords(n, i + Len(w))
         ELSE <<n[i]>> \o SpaceKeywords(n, i + 1)

RECURSIVE TrimClosers(_)
\* while n and n[-1] in ').,:;': n = n[:-1].strip()
TrimClosers(n) ==
    IF n # <<>> /\ n[Len(n)] \in {")", ".", ",", ":", ";"}
    THEN TrimClosers(Strip(SubSeq(n, 1, Len(n) - 1))) ELSE n

\* TextCleaner.clean_institution
clean_institution(name) ==
    IF ~Truthy(name) THEN None
    ELSE LET n1 == RemoveChars(Strip(name), {"$", "£", "*"})
             n2 == RemoveChars(n1, {"?"})
             n3 == SubPercentSpans(n2)
             n4 == SubPercentCodes(n3)
             n5 == SpaceKeywords(n4, 1)
             n6 == RemoveChars(n5, {"%", "$", "£", "*"})
             n7 == SubEmptyParens(n6)
             n8 == TrimClosers(n7)
             n9 == SubSpaceRuns(n8, 1)
         IN OrNone(Strip(ReplaceChar(n9, "=", " ")))

\* name.split(',')[0].strip() if ',' in name else name
BeforeComma(t) ==
    IF "," \in Range(t)
    THEN Strip(SubSeq(t, 1, (CHOOSE i \in 1..Len(t) :
                                t[i] = "," /\ \A j \in 1..(i - 1) : t[j] # ",") - 1))
    ELSE t

\* TextCleaner.clean_person_name
clean_person_name(raw) ==
    LET n1 == Strip(ReplaceChar(RemoveChars(raw, {"$", "£"}), "=", " "))
        n2 == BeforeComma(n1)
    IN OrNone(Strip(RStripSet(RStripSet(Strip(n2), {"."}), {";"})))

\* unicodedata.normalize("NFD", t).encode("ascii", "ignore").decode("ascii")
AsciiFold(t) ==
    LET kept == SelectSeq(t, LAMBDA c : c \notin NonAscii)
    IN [i \in 1..Len(kept) |->
          IF kept[i] \in Range(LowerLetters)
          THEN AsciiLetters[IndexOf(kept[i], LowerLetters)]
          ELSE IF kept[i] \in Range(UpperLetters)
               THEN UpperChar(AsciiLetters[IndexOf(kept[i], UpperLetters)])
               ELSE kept[i]]

\* TextCleaner.normalize_classification
normalize_classification(text) == AsciiFold(Strip(Lower(text)))

\* load_classification_list; filepath is NoFile when the file does not exist,
\* else the sequence of its lines
NoFile == <<"NoFile">>

load_classification_list(filepath) ==
    IF filepath = NoFile THEN {}
    ELSE { normalize_classification(Strip(filepath[i])) :
             i \in { j \in 1..Len(filepath) :
                       Strip(filepath[j]) # <<>> /\ Head(Strip(filepath[j])) # "#" } }

----------------------------------------------------------------------------
(* Python dicts and JSON values                                            *)

\* the empty dict
EmptyDict == [k \in {} |-> None]

\* d.get(k, default)
Get(d, k, default) == IF k \in DOMAIN d THEN d[k] ELSE default

\* d.setdefault(k, v), as the dict it leaves
SetDefault(d, k, v) ==
    IF k \in DOMAIN d THEN d
    ELSE [y \in DOMAIN d \cup {k} |-> IF y = k THEN v ELSE d[y]]

\* d[k] = v, as the dict it leaves
Put(d, k, v) == [y \in DOMAIN d \cup {k} |-> IF y = k THEN v ELSE d[y]]

\* JSON values whose type the code tests with isinstance carry their type
ListOf(seq) == [t |-> "list", v |-> seq]
StrOf(chars) == [t |-> "str", v |-> chars]
DictOf(pairs) == [t |-> "dict", v |-> pairs]

\* for item in seq: st = Body(st, item).  Each iteration is evaluated before
\* the next one starts (the test nxt = nxt makes TLC compute nxt there), as
\* the statements of a loop are.
ForEach(Body(_, _), st0, seq) ==
    LET RECURSIVE go(_, _), then(_, _)
        go(st, i) == IF i > Len(seq) THEN st ELSE then(Body(st, seq[i]), i)
        then(nxt, i) == IF nxt = nxt THEN go(nxt, i + 1) ELSE nxt
    IN go(st0, 1)

----------------------------------------------------------------------------
(* extractor.py: identifiers                                               *)

DigitChars == <<"0","1","2","3","4","5","6","7","8","9">>

RECURSIVE Decimal(_)
\* str(n) for n >= 0
Decimal(n) ==
    IF n < 10 THEN <<DigitChars[n + 1]>>
    ELSE Decimal(n \div 10) \o <<DigitChars[(n % 10) + 1]>>

RECURSIVE ZeroPad(_, _)
\* the format specification :0{width}d
ZeroPad(digits, width) ==
    IF Len(digits) >= width THEN digits ELSE ZeroPad(<<"0">> \o digits, width)

FactoidIdWidth == 6

\* f"F_{n:06d}"
FactoidKey(n) == <<"F", "_">> \o ZeroPad(Decimal(n), FactoidIdWidth)

\* f"SRC_{fiche_id}"
SourceKey(fiche_id) == <<"S", "R", "C", "_">> \o fiche_id

HashModulus == 100000000

BibIdWidth == 8

\* f"BIB_{hash(citation) % 10**8:08d}", h the value of hash(citation)
BibKey(h) == <<"B", "I", "B", "_">> \o ZeroPad(Decimal(h % HashModulus), BibIdWidth)

\* an identifier of the closed catalogs (FACTOID_TYPES, ROLES) as a node key
Token(name) == <<name>>

SIMPLE == <<"S","I","M","P","L","E">>
BEFORE == <<"B","E","F","O","R","E">>
AFTER == <<"A","F","T","E","R">>
NEAR == <<"N","E","A","R">>

----------------------------------------------------------------------------
(* extractor.py: DaphneGraphExtractor.  Every method is an operator from   *)
(* the extractor's fields g (a record) to the fields it leaves; a method   *)
(* that returns a value yields [g |-> fields, ret |-> value].              *)

\* DaphneGraphExtractor.__init__
NewExtractor(nations_file, disciplines_file, hash_of) ==
    [ persons |-> EmptyDict, names |-> EmptyDict, groups |-> EmptyDict,
      places |-> EmptyDict, zones |-> EmptyDict, sources |-> EmptyDict,
      factoids |-> EmptyDict,
      factoid_types |-> [k \in {Token(ft) : ft \in FACTOID_TYPES} |->
                            [factoidtype_id |-> k]],
      roles |-> [k \in {Token(r) : r \in ROLES} |-> [role_id |-> k]],
      ranks |-> EmptyDict, times |-> EmptyDict, objects |-> EmptyDict,
      object_types |-> EmptyDict, domains |-> EmptyDict,
      group_canon |-> EmptyDict,
      nations_set |-> load_classification_list(nations_file),
      disciplines_set |-> load_classification_list(disciplines_file),
      entity_class |-> EmptyDict,
      edges |-> <<>>,
      factoid_counter |-> 0,
      hash_of |-> hash_of ]

\* mutant of NextCounter: the counter is never advanced
NextCounterStuck(n) == n

\* self._factoid_counter += 1
NextCounter(n) == n + 1

\* DaphneGraphExtractor._new_factoid_id
new_factoid_id(g) ==
    LET n == NextCounter(g.factoid_counter)
    IN [g |-> [g EXCEPT !.factoid_counter = n], ret |-> FactoidKey(n)]

\* a date value as _get_time_id reads it: str(v).strip() if v else ""
Trimmed(v) == IF Truthy(v) THEN Strip(v) ELSE <<>>

\* the key tag of one endpoint: f"{'_' + q if q else ''}_{d}"
TimeTag(q, d) == (IF q # <<>> THEN <<"_">> \o q ELSE <<>>) \o <<"_">> \o d

\* mutant of KeyQualifier: no qualifier reaches the key
KeyQualifierDropped(q) == <<>>

\* sq = start_qualifier if start_qualifier != "SIMPLE" else ""
KeyQualifier(q) == IF q # SIMPLE THEN q ELSE <<>>

\* the time_key computed by _get_time_id, None when both endpoints are blank
TimeKey(start, end, start_qualifier, end_qualifier) ==
    LET Keyed(s, e, sq, eq) ==
          IF s = <<>> /\ e = <<>> THEN None
          ELSE IF s # <<>> /\ e # <<>> /\ s # e
               THEN <<"T", "I">> \o TimeTag(sq, s) \o TimeTag(eq, e)
               ELSE IF s # <<>> THEN <<"I">> \o TimeTag(sq, s)
                    ELSE <<"I">> \o TimeTag(eq, e)
    IN Keyed(Trimmed(start), Trimmed(end),
             KeyQualifier(start_qualifier), KeyQualifier(end_qualifier))

\* mutant of TimeNode: the start-instant branch keeps the end as finish and
\* as end qualifier, as the interval branch does
TimeNodeFinishKept(time_key, start, end, start_qualifier, end_qualifier) ==
    LET Node(s, e) ==
          IF s # <<>>
          THEN [time_id |-> time_key,
                time_type |-> IF e # <<>> /\ s # e THEN "TimeInterval" ELSE "Instant",
                begin |-> s, finish |-> e, begin_qualifier |-> start_qualifier,
                end_qualifier |-> end_qualifier, granularity |-> "year"]
          ELSE [time_id |-> time_key, time_type |-> "Instant", begin |-> e,
                finish |-> <<>>, begin_qualifier |-> end_qualifier,
                end_qualifier |-> <<>>, granularity |-> "year"]
    IN Node(Trimmed(start), Trimmed(end))

\* the node _get_time_id passes to self.times.setdefault(time_key, ...)
TimeNode(time_key, start, end, start_qualifier, end_qualifier) ==
    LET Node(s, e) ==
          IF s # <<>> /\ e # <<>> /\ s # e
          THEN [time_id |-> time_key, time_type |-> "TimeInterval", begin |-> s,
                finish |-> e, begin_qualifier |-> start_qualifier,
                end_qualifier |-> end_qualifier, granularity |-> "year"]
          ELSE IF s # <<>>
               THEN [time_id |-> time_key, time_type |-> "Instant", begin |-> s,
                     finish |-> <<>>, begin_qualifier |-> start_qualifier,
                     end_qualifier |-> <<>>, granularity |-> "year"]
               ELSE [time_id |-> time_key, time_type |-> "Instant", begin |-> e,
                     finish |-> <<>>, begin_qualifier |-> end_qualifier,
                     end_qualifier |-> <<>>, granularity |-> "year"]
    IN Node(Trimmed(start), Trimmed(end))

\* self.times.setdefault(time_key, node)
StoreTime(times, k, node) == SetDefault(times, k, node)

\* mutant of get_time_id: every call allocates a fresh sequential key
get_time_id_sequential(g, start, end, start_qualifier, end_qualifier) ==
    LET Stored(k) ==
          IF TimeKey(start, end, start_qualifier, end_qualifier) = None
          THEN [g |-> g, ret |-> None]
          ELSE [g |-> [g EXCEPT !.times =
                          Put(@, k, TimeNode(k, start, end, start_qualifier,
                                             end_qualifier))],
                ret |-> k]
    IN Stored(<<"T">> \o Decimal(Cardinality(DOMAIN g.times) + 1))

\* DaphneGraphExtractor._get_time_id
get_time_id(g, start, end, start_qualifier, end_qualifier) ==
    LET Stored(time_key) ==
          IF time_key = None THEN [g |-> g, ret |-> None]
          ELSE [g |-> [g EXCEPT !.times =
                          StoreTime(@, time_key,
                                    TimeNode(time_key, start, end, start_qualifier,
                                             end_qualifier))],
                ret |-> time_key]
    IN Stored(TimeKey(start, end, start_qualifier, end_qualifier))

\* mutant of Classify: the nation list is tested before the discipline list
ClassifyNationFirst(norm, disciplines_set, nations_set) ==
    IF norm \in nations_set THEN "nation"
    ELSE IF norm \in disciplines_set THEN "discipline"
    ELSE "institution"

\* mutant of Classify: an unmatched name falls into the last tested class
ClassifyDefaultNation(norm, disciplines_set, nations_set) ==
    IF norm \in disciplines_set THEN "discipline" ELSE "nation"

\* the class _add_group gives a name it has not classified yet
Classify(norm, disciplines_set, nations_set) ==
    IF norm \in disciplines_set THEN "discipline"
    ELSE IF norm \in nations_set THEN "nation"
    ELSE "institution"

\* mutant of Canonical: every form is its own display form
CanonicalOwnForm(group_canon, low, cname) == cname

\* display = self._group_canon.setdefault(low, cname)
Canonical(group_canon, low, cname) == Get(group_canon, low, cname)

\* mutant of add_group: the nation test is an if of its own, so that a
\* discipline name goes on to the nation test and its else branch
add_group_if_chain(g, raw_name) ==
    LET AsGroup(g1, display, cls) ==
          [g1 EXCEPT
             !.entity_class = Put(@, display, cls),
             !.groups = SetDefault(@, display,
                 [group_id |-> display, group_descr |-> <<>>, group_type |-> cls])]
        Classified(g1, display, norm) ==
          IF display \in DOMAIN g1.entity_class THEN [g |-> g1, ret |-> display]
          ELSE IF norm \in g1.disciplines_set
               THEN [g |-> AsGroup([g1 EXCEPT
                                      !.domains = SetDefault(@, display,
                                          [domain_id |-> display, name |-> display])],
                                   display,
                                   IF norm \in g1.nations_set THEN "nation"
                                   ELSE "institution"),
                     ret |-> display]
               ELSE [g |-> AsGroup(g1, display,
                                   IF norm \in g1.nations_set THEN "nation"
                                   ELSE "institution"),
                     ret |-> display]
        Deduplicated(cname, low) ==
          Classified([g EXCEPT !.group_canon = SetDefault(@, low, cname)],
                     Canonical(g.group_canon, low, cname),
                     normalize_classification(cname))
        Cleaned(cname) ==
          IF ~Truthy(cname) THEN [g |-> g, ret |-> None]
          ELSE Deduplicated(cname, Strip(Lower(cname)))
    IN Cleaned(clean_institution(raw_name))

\* DaphneGraphExtractor._add_group
add_group(g, raw_name) ==
    LET \* lines 122-147: return the display form if it has a class, else classify it
        Classified(g1, display, cls) ==
          IF display \in DOMAIN g1.entity_class THEN [g |-> g1, ret |-> display]
          ELSE IF cls = "discipline"
               THEN [g |-> [g1 EXCEPT
                              !.entity_class = Put(@, display, cls),
                              !.domains = SetDefault(@, display,
                                  [domain_id |-> display, name |-> display])],
                     ret |-> display]
               ELSE [g |-> [g1 EXCEPT
                              !.entity_class = Put(@, display, cls),
                              !.groups = SetDefault(@, display,
                                  [group_id |-> display, group_descr |-> <<>>,
                                   group_type |-> cls])],
                     ret |-> display]
        \* lines 118-125
        Deduplicated(cname, low) ==
          Classified([g EXCEPT !.group_canon = SetDefault(@, low, cname)],
                     Canonical(g.group_canon, low, cname),
                     Classify(normalize_classification(cname),
                              g.disciplines_set, g.nations_set))
        \* lines 116-118
        Cleaned(cname) ==
          IF ~Truthy(cname) THEN [g |-> g, ret |-> None]
          ELSE Deduplicated(cname, Strip(Lower(cname)))
    IN Cleaned(clean_institution(raw_name))

\* mutant of MergeField: the last non-empty value wins
MergeFieldLastWins(old, value) == IF value # <<>> THEN value ELSE old

\* if value and not self.persons[name][field]: self.persons[name][field] = value
MergeField(old, value) == IF value # <<>> /\ old = <<>> THEN value ELSE old

\* DaphneGraphExtractor._add_person (person_type keeps its default)
add_person(g, name, genre, shortdesc, status) ==
    LET p0 == SetDefault(g.persons, name,
                  [person_id |-> name, shortdesc |-> shortdesc, genre |-> genre,
                   person_type |-> "PhysicalPerson", status |-> status])
        p1 == [p0 EXCEPT ![name].genre = MergeField(@, genre),
                         ![name].shortdesc = MergeField(@, shortdesc),
                         ![name].status = MergeField(@, status)]
    IN [g EXCEPT !.persons = p1]

\* mutant of FactoidEdges: the provenance edge is left out
FactoidEdgesNoProvenance(fid, ftype, fiche_id) ==
    << [type |-> "HAS_TYPE", from_id |-> fid, from_label |-> "Factoid",
        to_id |-> Token(ftype), to_label |-> "FactoidType"] >>

\* the two edges _make_factoid appends
FactoidEdges(fid, ftype, fiche_id) ==
    << [type |-> "HAS_TYPE", from_id |-> fid, from_label |-> "Factoid",
        to_id |-> Token(ftype), to_label |-> "FactoidType"],
       [type |-> "REFER_TO", from_id |-> SourceKey(fiche_id), from_label |-> "Source",
        to_id |-> fid, to_label |-> "Factoid"] >>

\* DaphneGraphExtractor._make_factoid (original_text and certainty keep their
\* defaults at every call site)
make_factoid(g, fiche_id, ftype, description) ==
    LET Created(g1, fid) ==
          [g |-> [g1 EXCEPT
                    !.factoids = Put(@, fid,
                        [factoid_id |-> fid, factoidtype |-> ftype, certainty |-> "",
                         duration |-> "", notes |-> "", description |-> description,
                         original_text |-> "", problem |-> ""]),
                    !.edges = @ \o FactoidEdges(fid, ftype, fiche_id)],
           ret |-> fid]
        Allocated(r) == Created(r.g, r.ret)
    IN Allocated(new_factoid_id(g))

\* DaphneGraphExtractor._link_participant
link_participant(g, factoid_id, person_name, role, rank) ==
    [g EXCEPT !.edges = Append(@,
        [type |-> "PARTICIPATE", from_id |-> factoid_id, from_label |-> "Factoid",
         to_id |-> person_name, to_label |-> "Person", role |-> role, rank |-> rank])]

\* an edge with its optional certainty attribute
WithCertainty(edge, certainty) ==
    IF certainty # ""
    THEN [k \in DOMAIN edge \cup {"certainty"} |->
            IF k = "certainty" THEN certainty ELSE edge[k]]
    ELSE edge

\* mutant of link_place: the edge is appended and the Place node forgotten
link_place_edge_only(g, factoid_id, place_name, certainty) ==
    [g EXCEPT
       !.edges = Append(@, WithCertainty(
           [type |-> "TOOK_PLACE_AT", from_id |-> factoid_id, from_label |-> "Factoid",
            to_id |-> place_name, to_label |-> "Place"], certainty))]

\* mutant of link_place: the Place node is stored and the edge forgotten
link_place_node_only(g, factoid_id, place_name, certainty) ==
    [g EXCEPT
       !.places = SetDefault(@, place_name,
                     [place_id |-> place_name, place_description |-> place_name])]

\* DaphneGraphExtractor._link_place
link_place(g, factoid_id, place_name, certainty) ==
    [g EXCEPT
       !.places = SetDefault(@, place_name,
                     [place_id |-> place_name, place_description |-> place_name]),
       !.edges = Append(@, WithCertainty(
           [type |-> "TOOK_PLACE_AT", from_id |-> factoid_id, from_label |-> "Factoid",
            to_id |-> place_name, to_label |-> "Place"], certainty))]

\* mutant of GroupRoute: every class is linked as a group
GroupRouteAlwaysGroup(cls) == [type |-> "AT_GROUP", label |-> "GroupP"]

\* the edge type and target label _link_group chooses for a class
GroupRoute(cls) ==
    IF cls = "discipline" THEN [type |-> "IN_DOMAIN", label |-> "Domain"]
    ELSE [type |-> "AT_GROUP", label |-> "GroupP"]

\* DaphneGraphExtractor._link_group
link_group(g, factoid_id, group_name, certainty) ==
    LET route == GroupRoute(Get(g.entity_class, group_name, "institution"))
    IN [g EXCEPT !.edges = Append(@, WithCertainty(
           [type |-> route.type, from_id |-> factoid_id, from_label |-> "Factoid",
            to_id |-> group_name, to_label |-> route.label], certainty))]

\* DaphneGraphExtractor._link_time
link_time(g, factoid_id, start, end, start_qualifier, end_qualifier) ==
    LET Linked(g1, tid) ==
          IF Truthy(tid)
          THEN [g1 EXCEPT !.edges = Append(@,
                  [type |-> "OCCURRED_AT", from_id |-> factoid_id,
                   from_label |-> "Factoid", to_id |-> tid, to_label |-> "Time"])]
          ELSE g1
        Resolved(r) == Linked(r.g, r.ret)
    IN Resolved(get_time_id(g, start, end, start_qualifier, end_qualifier))

\* DaphneGraphExtractor._link_time_from_dates
link_time_from_dates(g, factoid_id, dates) ==
    IF dates = <<>> THEN g
    ELSE LET d == dates[1]
         IN link_time(g, factoid_id, Get(d, "start_date", None),
                      Get(d, "end_date", None),
                      Get(d, "start_qualifier", SIMPLE),
                      Get(d, "end_qualifier", SIMPLE))

----------------------------------------------------------------------------
(* utils.py: helpers over the meta dict of an item                         *)

UNKNOWN == <<"U","N","K","N","O","W","N">>

\* mutant of Promoted: the top-level type never becomes the qualifier
PromotedNever(top_type) == FALSE

\* top_type in ("BEFORE", "AFTER", "NEAR")
Promoted(top_type) == top_type \in {BEFORE, AFTER, NEAR}

\* the entry extract_dates builds for one date sub-object d
DateEntry(d) ==
    LET top_type == Get(d, "type", SIMPLE)
        \* lines 103-106
        Fallback(entry) ==
          IF "start_date" \notin DOMAIN entry /\ "end_date" \notin DOMAIN entry
             /\ Get(d, "date", None) # None
          THEN Put(Put(entry, "start_date", d.date), "start_qualifier",
                   IF Promoted(top_type) THEN top_type ELSE entry.start_qualifier)
          ELSE entry
        \* lines 99-101
        WithEnd(entry, ed) ==
          IF DOMAIN ed # {}
          THEN Put(Put(entry, "end_date", Get(ed, "date", None)),
                   "end_qualifier", Get(ed, "type", SIMPLE))
          ELSE entry
        \* lines 91-98
        WithStart(entry, sd) ==
          IF DOMAIN sd # {}
          THEN Put(Put(entry, "start_date", Get(sd, "date", None)),
                   "start_qualifier", Get(sd, "type", SIMPLE))
          ELSE IF Get(d, "date", None) # None
               THEN Put(Put(entry, "start_date", d.date), "start_qualifier",
                        IF Promoted(top_type) THEN top_type ELSE entry.start_qualifier)
               ELSE entry
        entry0 == [type |-> Get(d, "type", UNKNOWN),
                   start_qualifier |-> SIMPLE, end_qualifier |-> SIMPLE]
    IN Fallback(WithEnd(WithStart(entry0, Get(d, "startDate", EmptyDict)),
                        Get(d, "endDate", EmptyDict)))

\* mutant of extract_dates: a sub-object without any date is not emitted
extract_dates_dated_only(meta) ==
    LET ds == SelectSeq(Get(meta, "dates", <<>>),
                        LAMBDA d : DOMAIN d \cap {"date", "startDate", "endDate"} # {})
    IN [i \in 1..Len(ds) |-> DateEntry(ds[i])]

\* extract_dates
extract_dates(meta) ==
    LET ds == Get(meta, "dates", <<>>)
    IN [i \in 1..Len(ds) |-> DateEntry(ds[i])]

\* isinstance(v, str), for an element of a JSON list of the model
IsStr(v) == v # None

\* [TextCleaner.clean(v) for v in vals if isinstance(v, str) and TextCleaner.clean(v)]
CleanAll(vals) ==
    LET kept == SelectSeq(vals, LAMBDA v : IsStr(v) /\ Truthy(clean(v)))
    IN [i \in 1..Len(kept) |-> clean(kept[i])]

\* safe_list
safe_list(meta, key) ==
    LET vals == Get(meta, key, ListOf(<<>>))
    IN IF vals.t # "list" THEN <<>> ELSE CleanAll(vals.v)

\* mutant of HasMarker: only the first value is looked at
HasMarkerInFirst(vals) ==
    IF vals.t = "list"
    THEN vals.v # <<>> /\ IsStr(vals.v[1]) /\ "?" \in Range(vals.v[1])
    ELSE vals.v # <<>> /\ vals.v[1] = "?"

\* any(isinstance(v, str) and "?" in v for v in meta.get(key, []))
HasMarker(vals) ==
    IF vals.t = "list"
    THEN \E i \in 1..Len(vals.v) : IsStr(vals.v[i]) /\ "?" \in Range(vals.v[i])
    ELSE "?" \in Range(vals.v)

\* detect_uncertainty
detect_uncertainty(meta) ==
    [places |-> HasMarker(Get(meta, "places", ListOf(<<>>))),
     institutions |-> HasMarker(Get(meta, "institutions", ListOf(<<>>)))]

\* "uncertain" if flag else ""
Certainty(flag) == IF flag THEN "uncertain" ELSE ""

\* v or ""
OrEmpty(v) == IF Truthy(v) THEN v ELSE <<>>

\* TextCleaner.clean(item.get("value", "")) or ""
CleanValue(item) == OrEmpty(clean(Get(item, "value", <<>>)))

----------------------------------------------------------------------------
(* extractor.py: the sections of a record                                  *)

\* item[0].get("value", "") if items else ""
FirstValue(items) == IF items # <<>> THEN Get(items[1], "value", <<>>) ELSE <<>>

\* the status read by _process_identity: a list of items or a plain str
IdentityStatus(status_items) ==
    IF status_items.t = "list" THEN FirstValue(status_items.v)
    ELSE IF status_items.t = "str" THEN status_items.v
    ELSE <<>>

\* the primary name _process_identity reads
PrimaryName(rec) ==
    LET name_items == Get(Get(rec, "identity", EmptyDict), "name", <<>>)
    IN IF name_items # <<>> THEN clean(Get(name_items[1], "value", <<>>)) ELSE None

\* mutant of AddVariant: a variant equal to the primary name is not skipped
AddVariantUnchecked(g, person_name, nv) ==
    LET Named(v) ==
          IF Truthy(v)
          THEN [g EXCEPT
                  !.names = SetDefault(@, v, [name_id |-> v, completename |-> v]),
                  !.edges = Append(@,
                      [type |-> "NAMED", from_id |-> person_name,
                       from_label |-> "Person", to_id |-> v, to_label |-> "Name"])]
          ELSE g
    IN Named(clean(Get(nv, "value", <<>>)))

\* the nameVariant loop of _process_identity
AddVariant(g, person_name, nv) ==
    LET Named(v) ==
          IF Truthy(v) /\ v # person_name
          THEN [g EXCEPT
                  !.names = SetDefault(@, v, [name_id |-> v, completename |-> v]),
                  !.edges = Append(@,
                      [type |-> "NAMED", from_id |-> person_name,
                       from_label |-> "Person", to_id |-> v, to_label |-> "Name"])]
          ELSE g
    IN Named(clean(Get(nv, "value", <<>>)))

\* DaphneGraphExtractor._process_identity
process_identity(g, rec, source_id) ==
    LET identity == Get(rec, "identity", EmptyDict)
        \* lines 319-371
        Identified(person_name) ==
          LET g1 == [g EXCEPT !.sources = Put(@, source_id,
                        [source_id |-> source_id, name |-> Get(rec, "title", <<>>),
                         reference |-> Get(rec, "reference", <<>>),
                         link |-> Get(rec, "link", <<>>)])]
              gender == FirstValue(Get(identity, "gender", <<>>))
              short_desc == FirstValue(Get(identity, "shortDescription", <<>>))
              id_status == IdentityStatus(Get(identity, "status", ListOf(<<>>)))
              g2 == add_person(g1, person_name, gender, short_desc, id_status)
              g3 == [g2 EXCEPT
                       !.edges = @ \o
                         << [type |-> "BELONGS_TO", from_id |-> person_name,
                             from_label |-> "Person", to_id |-> source_id,
                             to_label |-> "Source"],
                            [type |-> "MAIN_NAME", from_id |-> person_name,
                             from_label |-> "Person", to_id |-> person_name,
                             to_label |-> "Name"] >>,
                       !.names = SetDefault(@, person_name,
                           [name_id |-> person_name, completename |-> person_name])]
          IN [g |-> ForEach(LAMBDA st, nv : AddVariant(st, person_name, nv), g3,
                            Get(identity, "nameVariant", <<>>)),
              ret |-> person_name]
        \* lines 315-317
        Read(person_name) ==
          IF ~Truthy(person_name) THEN [g |-> g, ret |-> None]
          ELSE Identified(person_name)
    IN Read(PrimaryName(rec))

\* the body of the date loops of _process_activity_dates and _process_life_dates
DateFactoid(g, fiche_id, person_name, ftype, prefix, dobj) ==
    LET ds == Get(dobj, "start_date", None)
        de == Get(dobj, "end_date", None)
        Dated(f) ==
          link_time(link_participant(f.g, f.ret, person_name, "SUBJECT", <<>>),
                    f.ret, ds, de, Get(dobj, "start_qualifier", SIMPLE),
                    Get(dobj, "end_qualifier", SIMPLE))
    IN IF Truthy(ds) \/ Truthy(de)
       THEN Dated(make_factoid(g, fiche_id, ftype, <<prefix>> \o person_name))
       ELSE g

\* the loops shared by _process_activity_dates and _process_life_dates
DateSection(g, rec, fiche_id, person_name, key, ftype, prefix) ==
    ForEach(LAMBDA st, item :
              ForEach(LAMBDA st2, dobj :
                        DateFactoid(st2, fiche_id, person_name, ftype, prefix, dobj),
                      st, extract_dates(Get(item, "meta", EmptyDict))),
            g, Get(Get(rec, "identity", EmptyDict), key, <<>>))

\* DaphneGraphExtractor._process_activity_dates
process_activity_dates(g, rec, fiche_id, person_name) ==
    DateSection(g, rec, fiche_id, person_name, "datesOfActivity", "ACTIVITY_PERIOD",
                "Période d'activité de ")

\* DaphneGraphExtractor._process_life_dates
process_life_dates(g, rec, fiche_id, person_name) ==
    DateSection(g, rec, fiche_id, person_name, "datesOfLife", "LIFE_PERIOD",
                "Période de vie de ")

\* for p in places: self._link_place(fid, p, certainty=place_cert)
LinkPlaces(g, fid, places, place_cert) ==
    ForEach(LAMBDA st, p : link_place(st, fid, p, place_cert), g, places)

\* gname = self._add_group(inst); if gname: self._link_group(fid, gname, certainty=inst_cert)
AddAndLink(g, fid, inst, inst_cert) ==
    LET Linked(r) == IF Truthy(r.ret) THEN link_group(r.g, fid, r.ret, inst_cert) ELSE r.g
    IN Linked(add_group(g, inst))

\* for inst in institutions: gname = self._add_group(inst); if gname: self._link_group(...)
LinkGroups(g, fid, institutions, inst_cert) ==
    ForEach(LAMBDA st, inst : AddAndLink(st, fid, inst, inst_cert), g, institutions)

\* the birthPlace loop body of _process_origin
BirthItem(g, fiche_id, person_name, item) ==
    LET meta == Get(item, "meta", EmptyDict)
        Born(f, places, place_cert) ==
          LinkPlaces(link_participant(f.g, f.ret, person_name, "SUBJECT", <<>>),
                     f.ret, places, place_cert)
        Read(places, unc) ==
          IF places # <<>>
          THEN Born(make_factoid(g, fiche_id, "BIRTH",
                                 <<"Naissance de ">> \o person_name),
                    places, Certainty(unc.places))
          ELSE g
    IN Read(safe_list(meta, "places"), detect_uncertainty(meta))

\* the diocese loop body of _process_origin, for one institution
DioceseInst(g, fiche_id, person_name, inst) ==
    LET Linked(f, gname) ==
          [link_participant(f.g, f.ret, person_name, "SUBJECT", <<>>)
             EXCEPT !.edges = Append(@,
                [type |-> "TOOK_PLACE_AT_ZONE", from_id |-> f.ret,
                 from_label |-> "Factoid", to_id |-> gname, to_label |-> "Zone"])]
        Zoned(g1, gname) ==
          IF Truthy(gname)
          THEN Linked(make_factoid(
                        [g1 EXCEPT !.zones = SetDefault(@, gname,
                            [zone_id |-> gname, zone_description |-> gname])],
                        fiche_id, "DIOCESE_ORIGIN",
                        <<"Origine diocésaine de ">> \o person_name
                          \o <<": ">> \o gname),
                      gname)
          ELSE g1
        Added(r) == Zoned(r.g, r.ret)
    IN Added(add_group(g, inst))

\* DaphneGraphExtractor._process_origin
process_origin(g, rec, fiche_id, person_name) ==
    LET origin == Get(rec, "origin", EmptyDict)
        g1 == ForEach(LAMBDA st, item : BirthItem(st, fiche_id, person_name, item),
                      g, Get(origin, "birthPlace", <<>>))
    IN ForEach(LAMBDA st, item :
                 ForEach(LAMBDA st2, inst : DioceseInst(st2, fiche_id, person_name, inst),
                         st, safe_list(Get(item, "meta", EmptyDict), "institutions")),
               g1, Get(origin, "diocese", <<>>))

\* the loop body shared by curriculum.university (UNIVERSITY_STUDY, STUDENT)
\* and professionalCareer.universityFunction (UNIVERSITY_TEACHING, TEACHER)
PlaceOrGroupItem(g, fiche_id, person_name, ftype, role, description, item) ==
    LET meta == Get(item, "meta", EmptyDict)
        Linked(f, unc, dates, places, institutions) ==
          LET g1 == link_participant(f.g, f.ret, person_name, role, <<>>)
              g2 == link_time_from_dates(g1, f.ret, dates)
              g3 == LinkPlaces(g2, f.ret, places, Certainty(unc.places))
          IN LinkGroups(g3, f.ret, institutions, Certainty(unc.institutions))
        Read(unc, dates, places, institutions) ==
          IF places # <<>> \/ institutions # <<>>
          THEN Linked(make_factoid(g, fiche_id, ftype, description),
                      unc, dates, places, institutions)
          ELSE g
    IN Read(detect_uncertainty(meta), extract_dates(meta),
            safe_list(meta, "places"), safe_list(meta, "institutions"))

\* the grades loop body of _process_curriculum
GradeItem(g, fiche_id, person_name, item) ==
    LET meta == Get(item, "meta", EmptyDict)
        Ranked(g3, grade_val) ==
          IF grade_val # <<>>
          THEN [g3 EXCEPT !.ranks = SetDefault(@, grade_val,
                             [rank_id |-> grade_val, rankname |-> grade_val])]
          ELSE g3
        Linked(f, grade_val) ==
          LET g1 == link_participant(f.g, f.ret, person_name, "STUDENT", grade_val)
              g2 == link_time_from_dates(g1, f.ret, extract_dates(meta))
          IN Ranked(LinkPlaces(g2, f.ret, safe_list(meta, "places"),
                               Certainty(detect_uncertainty(meta).places)),
                    grade_val)
        Read(grade_val) ==
          Linked(make_factoid(g, fiche_id, "ACADEMIC_GRADE",
                              <<"Grade de ">> \o person_name \o <<": ">> \o grade_val),
                 grade_val)
    IN Read(CleanValue(item))

\* the loop body shared by universityCollege (COLLEGE_MEMBERSHIP, MEMBER, no
\* dates), secularPosition (SECULAR_POSITION, HOLDER) and regularOrder
\* (REGULAR_ORDER, MEMBER), for one institution of the item
MembershipInst(g, fiche_id, person_name, ftype, role, dates, inst_cert, link, inst) ==
    LET Linked(f, gname) ==
          LET g1 == link_participant(f.g, f.ret, person_name, role, <<>>)
              g2 == link_group(g1, f.ret, gname, inst_cert)
          IN link_time_from_dates(g2, f.ret, dates)
        Member(g1, gname) ==
          IF Truthy(gname)
          THEN Linked(make_factoid(g1, fiche_id, ftype, person_name \o link \o gname),
                      gname)
          ELSE g1
        Added(r) == Member(r.g, r.ret)
    IN Added(add_group(g, inst))

\* the item loops of universityCollege, secularPosition and regularOrder;
\* with_dates is FALSE for universityCollege, which links no time and whose
\* description does not name the item's value; word is the literal between
\* the value and the group name in the description
MembershipSection(g, items, fiche_id, person_name, ftype, role, with_dates, word) ==
    ForEach(LAMBDA st, item :
              LET meta == Get(item, "meta", EmptyDict)
                  unc == detect_uncertainty(meta)
                  dates == IF with_dates THEN extract_dates(meta) ELSE <<>>
                  link == IF with_dates
                          THEN <<": ">> \o CleanValue(item) \o <<word>>
                          ELSE <<word>>
              IN ForEach(LAMBDA st2, inst :
                           MembershipInst(st2, fiche_id, person_name, ftype, role, dates,
                                          Certainty(unc.institutions), link, inst),
                         st, safe_list(meta, "institutions")),
            g, items)

\* DaphneGraphExtractor._process_curriculum
process_curriculum(g, rec, fiche_id, person_name) ==
    LET curriculum == Get(rec, "curriculum", EmptyDict)
        g1 == ForEach(LAMBDA st, item :
                        PlaceOrGroupItem(st, fiche_id, person_name, "UNIVERSITY_STUDY",
                                         "STUDENT", <<"Études de ">> \o person_name,
                                         item),
                      g, Get(curriculum, "university", <<>>))
        g2 == ForEach(LAMBDA st, item : GradeItem(st, fiche_id, person_name, item),
                      g1, Get(curriculum, "grades", <<>>))
    IN MembershipSection(g2, Get(curriculum, "universityCollege", <<>>), fiche_id,
                         person_name, "COLLEGE_MEMBERSHIP", "MEMBER", FALSE,
                         " membre de ")

\* DaphneGraphExtractor._process_ecclesiastical_career
process_ecclesiastical_career(g, rec, fiche_id, person_name) ==
    LET career == Get(rec, "ecclesiasticalCareer", EmptyDict)
        g1 == MembershipSection(g, Get(career, "secularPosition", <<>>), fiche_id,
                                person_name, "SECULAR_POSITION", "HOLDER", TRUE, " a ")
    IN MembershipSection(g1, Get(career, "regularOrder", <<>>), fiche_id,
                         person_name, "REGULAR_ORDER", "MEMBER", TRUE, " dans ")

\* DaphneGraphExtractor._process_professional_career
process_professional_career(g, rec, fiche_id, person_name) ==
    ForEach(LAMBDA st, item :
              PlaceOrGroupItem(st, fiche_id, person_name, "UNIVERSITY_TEACHING", "TEACHER",
                               person_name \o <<": ">> \o CleanValue(item),
                               item),
            g, Get(Get(rec, "professionalCareer", EmptyDict), "universityFunction", <<>>))

\* the names loop body of _process_relationships
RelationName(g, fiche_id, person_name, ftype, role, other_role, prefix, suffix, raw_name) ==
    LET Linked(f, cname) ==
          link_participant(link_participant(f.g, f.ret, person_name, role, <<>>),
                           f.ret, cname, other_role, <<>>)
        Related(cname) ==
          IF Truthy(cname)
          THEN Linked(make_factoid(add_person(g, cname, <<>>, <<>>, <<>>), fiche_id,
                                   ftype,
                                   <<prefix>> \o person_name \o <<" - ">> \o cname
                                     \o suffix),
                      cname)
          ELSE g
    IN Related(clean_person_name(raw_name))

\* one of the two item loops of _process_relationships; with_type is TRUE for
\* familyNetwork, whose description ends with the item's relation type
RelationSection(g, items, fiche_id, person_name, ftype, role, other_role, prefix, with_type) ==
    ForEach(LAMBDA st, item :
              ForEach(LAMBDA st2, raw_name :
                        RelationName(st2, fiche_id, person_name, ftype, role, other_role,
                                     prefix,
                                     IF with_type
                                     THEN <<" (">> \o CleanValue(item) \o <<")">>
                                     ELSE <<>>,
                                     raw_name),
                      st, Get(Get(item, "meta", EmptyDict), "names", <<>>)),
            g, items)

\* DaphneGraphExtractor._process_relationships
process_relationships(g, rec, fiche_id, person_name) ==
    LET rel == Get(rec, "relationalInsertion", EmptyDict)
        g1 == RelationSection(g, Get(rel, "familyNetwork", <<>>), fiche_id, person_name,
                              "FAMILY_RELATION", "SUBJECT", "FAMILY_MEMBER",
                              "Relation familiale: ", TRUE)
    IN RelationSection(g1, Get(rel, "studentProfessorRelationships", <<>>), fiche_id,
                       person_name, "STUDENT_TEACHER", "STUDENT", "TEACHER",
                       "Relation maître-élève: ", FALSE)

\* the opus loop body of _process_production
OpusItem(g, fiche_id, person_name, opus) ==
    LET Linked(f, main_title) ==
          [link_participant(f.g, f.ret, person_name, "AUTHOR", <<>>)
             EXCEPT !.edges = Append(@,
                [type |-> "OF_TYPE", from_id |-> f.ret, from_label |-> "Factoid",
                 to_id |-> main_title, to_label |-> "Object"])]
        Authored(main_title) ==
          IF Truthy(main_title)
          THEN Linked(make_factoid(
                        [g EXCEPT
                           !.objects = SetDefault(@, main_title,
                               [object_id |-> main_title,
                                object_description |-> main_title,
                                value |-> main_title]),
                           !.object_types = SetDefault(@, Token("literary_work"),
                               [type_id |-> Token("literary_work")])],
                        fiche_id, "AUTHORSHIP",
                        person_name \o <<" auteur de '">> \o main_title \o <<"'">>),
                      main_title)
          ELSE g
    IN Authored(clean(Get(opus, "mainTitle", <<>>)))

\* the body of the tp.items() loop of _process_production; entry is one
\* (domain_name, domain_data) pair
DomainEntry(g, fiche_id, person_name, entry) ==
    IF entry.data.t # "dict" THEN g
    ELSE LET g1 == IF entry.name # <<>>
                   THEN [g EXCEPT !.domains = SetDefault(@, entry.name,
                            [domain_id |-> entry.name, name |-> entry.name])]
                   ELSE g
         IN ForEach(LAMBDA st, opus : OpusItem(st, fiche_id, person_name, opus),
                    g1, Get(entry.data.v, "opus", <<>>))

\* DaphneGraphExtractor._process_production
process_production(g, rec, fiche_id, person_name) ==
    LET tp == Get(rec, "textualProduction", DictOf(<<>>))
    IN IF tp.t # "dict" THEN g
       ELSE ForEach(LAMBDA st, entry : DomainEntry(st, fiche_id, person_name, entry),
                    g, tp.v)

\* the item loop body of _process_bibliography
BibItem(g, fiche_id, bib_section, item) ==
    LET Linked(citation, bib_src_id) ==
          [g EXCEPT
             !.sources = SetDefault(@, bib_src_id,
                 [source_id |-> bib_src_id, name |-> citation,
                  reference |-> <<>>, link |-> <<>>]),
             !.edges = Append(@,
                 [type |-> "LINKED_TO", from_id |-> SourceKey(fiche_id),
                  from_label |-> "Source", to_id |-> bib_src_id,
                  to_label |-> "Source", link_type |-> bib_section])]
        Cited(citation) ==
          IF Truthy(citation) THEN Linked(citation, BibKey(g.hash_of[citation]))
          ELSE g
    IN Cited(clean(Get(item, "value", <<>>)))

\* DaphneGraphExtractor._process_bibliography
process_bibliography(g, rec, fiche_id) ==
    LET bib == Get(rec, "bibliography", EmptyDict)
    IN ForEach(LAMBDA st, bib_section :
                 ForEach(LAMBDA st2, item : BibItem(st2, fiche_id, bib_section, item),
                         st, Get(bib, bib_section, <<>>)),
               g, <<"workReferences", "bookReferences">>)

\* mutant of Usable: the early return is missing
UsableAlways(person_name) == TRUE

\* whether process_record goes on after _process_identity
Usable(person_name) == Truthy(person_name)

\* mutant of Sections: _process_curriculum is called before _process_origin
SectionsCurriculumFirst ==
    << "activity_dates", "life_dates", "curriculum", "origin",
       "ecclesiastical_career", "professional_career", "relationships",
       "production", "bibliography" >>

\* the section calls of process_record after _process_identity, in their order
Sections ==
    << "activity_dates", "life_dates", "origin", "curriculum",
       "ecclesiastical_career", "professional_career", "relationships",
       "production", "bibliography" >>

\* mutant of RunSection: _process_curriculum is reached only when the record
\* has an origin section
RunSectionNeedsOrigin(g, section, rec, fiche_id, person_name) ==
    CASE section = "activity_dates" -> process_activity_dates(g, rec, fiche_id, person_name)
      [] section = "life_dates" -> process_life_dates(g, rec, fiche_id, person_name)
      [] section = "origin" -> process_origin(g, rec, fiche_id, person_name)
      [] section = "curriculum" ->
            IF "origin" \in DOMAIN rec
            THEN process_curriculum(g, rec, fiche_id, person_name) ELSE g
      [] section = "ecclesiastical_career" ->
            process_ecclesiastical_career(g, rec, fiche_id, person_name)
      [] section = "professional_career" ->
            process_professional_career(g, rec, fiche_id, person_name)
      [] section = "relationships" -> process_relationships(g, rec, fiche_id, person_name)
      [] section = "production" -> process_production(g, rec, fiche_id, person_name)
      [] section = "bibliography" -> process_bibliography(g, rec, fiche_id)

\* one section call of process_record
RunSection(g, section, rec, fiche_id, person_name) ==
    CASE section = "activity_dates" -> process_activity_dates(g, rec, fiche_id, person_name)
      [] section = "life_dates" -> process_life_dates(g, rec, fiche_id, person_name)
      [] section = "origin" -> process_origin(g, rec, fiche_id, person_name)
      [] section = "curriculum" -> process_curriculum(g, rec, fiche_id, person_name)
      [] section = "ecclesiastical_career" ->
            process_ecclesiastical_career(g, rec, fiche_id, person_name)
      [] section = "professional_career" ->
            process_professional_career(g, rec, fiche_id, person_name)
      [] section = "relationships" -> process_relationships(g, rec, fiche_id, person_name)
      [] section = "production" -> process_production(g, rec, fiche_id, person_name)
      [] section = "bibliography" -> process_bibliography(g, rec, fiche_id)

\* DaphneGraphExtractor.process_record
process_record(g, rec) ==
    LET fiche_id == rec["_id"]
        Identified(g1, person_name) ==
          IF ~Usable(person_name) THEN g1
          ELSE ForEach(LAMBDA st, section :
                         RunSection(st, section, rec, fiche_id, person_name),
                       g1, Sections)
        Read(r) == Identified(r.g, r.ret)
    IN Read(process_identity(g, rec, SourceKey(fiche_id)))

----------------------------------------------------------------------------
(* The inputs of a run: reference lists, the value of hash() on the         *)
(* citations, and the documents of the stream                              *)

cTh == <<"T","h","é">>
cGa == <<"G","a">>
cAr == <<"A","r">>
cSor == <<"S","o","r">>

\* the contents config/nations.txt and config/disciplines.txt can have
NationFiles == { NoFile, << <<"#"," ","n">>, <<>>, <<" ","G","a"," ">>, cAr >> }

DisciplineFiles == { NoFile, << <<"t","h","e">>, <<"A","R">> >> }

ListConfigs ==
    { <<n, d>> \in NationFiles \X DisciplineFiles : n = NoFile => d = NoFile }

\* raw organization names
GroupNames ==
    { cTh, <<"t","h","é",".">>, <<"T","H","E">>, <<"G","a","?">>, cAr,
      cSor, <<"%","1","2","%","S","o","r",")">>, <<"a","N","a","t","i","o","n">>,
      <<"i","n","c","o","n","n","u",";">> }

d1350 == <<"1","3","5","0">>
d14 == <<"1","4">>

\* (start, end) pairs handed to _get_time_id: both blank, one endpoint, equal
\* endpoints, different endpoints
EndpointPairs ==
    { <<None, <<" ">> >>, <<d1350, None>>, <<None, d1350>>, <<d1350, <<"1","3","5","0"," ">> >>,
      <<d1350, d14>> }

Qualifiers == { SIMPLE, BEFORE, AFTER, NEAR }

\* (start_qualifier, end_qualifier) pairs handed to _get_time_id
QualifierPairs ==
    { <<SIMPLE, SIMPLE>>, <<BEFORE, SIMPLE>>, <<NEAR, SIMPLE>>, <<SIMPLE, AFTER>>,
      <<SIMPLE, NEAR>>, <<BEFORE, AFTER>> }

nJo == <<"J","o">>
nAl == <<"A","l">>

\* primary-name values that clean to a usable name
GoodNames == { <<"J","o",",">>, nAl }

\* primary-name values that are blank or a stop word
BadNames == { <<" ">>, <<"I","n","c","o","n","n","u">>, <<"?">>, <<>> }

bib1 == <<"B","1">>
bib2 == <<"B","2">>

\* the cleaned citations of the documents
Citations == { bib1, bib2 }

\* hash() on the citations, fixed by the interpreter for one run: a run where
\* the two citations collide and a run where they do not
HashFunctions ==
    { [c \in Citations |-> 7],
      [c \in Citations |-> IF c = bib1 THEN 7 ELSE 0 - 5] }

Item(v) == [value |-> v]

DateMeta ==
    [dates |-> << [type |-> BEFORE, date |-> d1350],
                  [type |-> <<"I","N","T">>,
                   startDate |-> [date |-> d1350, type |-> SIMPLE],
                   endDate |-> [date |-> d14, type |-> NEAR]],
                  [type |-> SIMPLE],
                  [date |-> <<" ">>] >>]

\* the sections of a document besides its primary name, in five shapes
BodyOrigin ==
    [identity |->
       [gender |-> <<Item(<<"m">>)>>,
        nameVariant |-> <<Item(<<"J","o",".">>), Item(<<"J","o","h">>), Item(<<"?">>)>>,
        datesOfActivity |-> <<[meta |-> DateMeta], Item(<<"x">>)>>,
        datesOfLife |-> <<[meta |-> [dates |-> <<[endDate |-> [date |-> d14]]>>]]>>],
     origin |->
       [birthPlace |-> << [meta |-> [places |-> ListOf(<< <<"P","a",",">>,
                                                           <<"R","o","?">> >>)]],
                          [meta |-> [places |-> StrOf(<<"P","a">>)]],
                          Item(<<"x">>) >>,
        diocese |-> << [meta |-> [institutions |->
                          ListOf(<< <<"G","a",".">>, None,
                                    <<"I","N","C","O","N","N","U">> >>)]] >>]]

BodyCurriculum ==
    [identity |-> [status |-> StrOf(<<"x">>)],
     curriculum |->
       [university |-> << [meta |-> [institutions |-> ListOf(<<cTh, <<"G","a","?">>, cSor>>),
                                     places |-> ListOf(<< <<"P","a">> >>),
                                     dates |-> DateMeta.dates]],
                          [meta |-> [institutions |-> ListOf(<< <<"?">> >>)]],
                          Item(<<"x">>) >>,
        grades |-> << [value |-> <<"M","a","g",".">>,
                       meta |-> [places |-> ListOf(<< <<"R","o","?">> >>),
                                 dates |-> <<[date |-> d14]>>]],
                      [meta |-> EmptyDict] >>,
        universityCollege |-> << [meta |-> [institutions |->
                                     ListOf(<< cAr, <<"t","h","é">> >>)]] >>]]

BodyCareer ==
    [identity |-> [status |-> ListOf(<<Item(<<"y">>)>>),
                   gender |-> <<Item(<<"f">>)>>,
                   shortDescription |-> <<Item(<<"d">>)>>],
     ecclesiasticalCareer |->
       [secularPosition |-> << [value |-> <<"c","a","n">>,
                                meta |-> [institutions |-> ListOf(<< <<"T","H","E">>, cSor >>),
                                          dates |-> <<[type |-> AFTER, date |-> d14]>>]] >>,
        regularOrder |-> << [meta |-> [institutions |-> ListOf(<< <<"g","a","?">> >>)]] >>],
     professionalCareer |->
       [universityFunction |-> << [value |-> <<"r","e","g">>,
                                   meta |-> [places |-> ListOf(<< <<"P","a">> >>)]],
                                  [value |-> <<"r","e","g">>] >>],
     relationalInsertion |->
       [familyNetwork |-> << [value |-> <<"f","r">>,
                              meta |-> [names |-> << <<"A","l",","," ","x">>,
                                                     <<"J","o",".">>, <<"?">> >>]] >>,
        studentProfessorRelationships |-> << [meta |-> [names |-> << nAl >>]] >>]]

BodyProduction ==
    [textualProduction |->
       DictOf(<< [name |-> cTh,
                  data |-> DictOf([opus |-> << [mainTitle |-> <<"S","u",".">>],
                                               [mainTitle |-> <<"?">>] >>])],
                 [name |-> <<>>, data |-> DictOf([opus |-> <<[mainTitle |-> <<"S","u">>]>>])],
                 [name |-> cGa, data |-> ListOf(<<>>)] >>),
     bibliography |->
       [workReferences |-> <<Item(bib1)>>,
        bookReferences |-> <<Item(<<"B","2",".">>), Item(bib1), Item(<<"?">>)>>]]

BodyNone == EmptyDict

\* the dict d1 | d2
Merge(d1, d2) ==
    [k \in DOMAIN d1 \cup DOMAIN d2 |-> IF k \in DOMAIN d2 THEN d2[k] ELSE d1[k]]

BodyFull ==
    Merge(Merge(Merge(BodyOrigin, BodyCurriculum), BodyCareer), BodyProduction)

Bodies == { BodyNone, BodyOrigin, BodyCurriculum, BodyCareer, BodyProduction }

\* a document: its identifier, its primary name items and the sections of body
Document(id, name_items, body) ==
    Merge(Merge(body, [identity |-> Merge(Get(body, "identity", EmptyDict),
                                          [name |-> name_items])]),
          [_id |-> id])

r1 == <<"r","1">>
r2 == <<"r","2">>

\* a record with a name and one birth place, and no other section
BirthRecord ==
    Document(r1, <<Item(<<"J","o","h","a","n","n","e","s"," ","d","e"," ","P","a","r","i","s","i","i","s",",">>)>>,
             [origin |-> [birthPlace |->
                << [meta |-> [places |-> ListOf(<< <<"P","a","r","i","s","i","u","s">> >>)]] >>]])

\* a record whose only date entry is a flat date with a top-level qualifier
DateRecord ==
    Document(r1, <<Item(nAl)>>,
             [identity |-> [datesOfActivity |->
                << [meta |-> [dates |-> << [type |-> BEFORE, date |-> d1350] >>]] >>]])

\* a record whose one university item names only an institution that
\* TextCleaner.clean keeps and TextCleaner.clean_institution rejects
StudyRecord ==
    Document(r1, <<Item(nAl)>>,
             [curriculum |-> [university |->
                << [meta |-> [institutions |-> ListOf(<< <<"%","1","2","%">> >>)]] >>]])

GoodDocuments ==
    { Document(r1, <<Item(n)>>, b) : n \in GoodNames, b \in Bodies }
      \cup { Document(r2, <<Item(nJo)>>, b) : b \in {BodyOrigin, BodyCareer, BodyFull} }
      \cup { BirthRecord, DateRecord, StudyRecord }

\* documents without a usable primary name: blank or stop word, no value, no
\* name item, no identity section
BadDocuments ==
    { Document(r2, <<Item(n)>>, BodyFull) : n \in BadNames }
      \cup { Document(r2, <<[meta |-> EmptyDict]>>, BodyFull),
             Document(r2, <<>>, BodyFull),
             Merge(BodyProduction, [_id |-> r2]) }

Documents == GoodDocuments \cup BadDocuments

----------------------------------------------------------------------------
(* State                                                                   *)

MaxRecords == 2

MaxCalls == 3

\* blank lines of the input file read in one run
MaxBlankLines == 1

\* the longest raw text handed to a direct call of TextCleaner.clean
MaxTextLen == 3

\* direct calls of TextCleaner.clean in one run
MaxCleanCalls == 1

\* the longest "dates" list handed to a direct call of extract_dates
MaxDates == 2

VARIABLES
    persons, names, groups, places, zones, sources, factoids, factoid_types,
    roles, ranks, times, objects, object_types, domains,
    group_canon, nations_set, disciplines_set, entity_class,
    edges, factoid_counter,
    \* the environment of the run: the reference list files and hash()
    nations_file, disciplines_file, hash_of,
    \* export_csvs: the document last read and the count of documents processed
    rec, record_count,
    \* export_csvs: the lines of the input file consumed so far, and where the
    \* run is: "reading" the file, or "raised" once an exception has ended it
    line_no, pc,
    \* the direct calls made on the extractor so far: <<method, arguments, result>>
    log

fields == <<persons, names, groups, places, zones, sources, factoids, factoid_types,
            roles, ranks, times, objects, object_types, domains,
            group_canon, nations_set, disciplines_set, entity_class,
            edges, factoid_counter, hash_of>>

vars == <<fields, nations_file, disciplines_file, rec, record_count, line_no, pc, log>>

\* the extractor's fields as one record
Self ==
    [ persons |-> persons, names |-> names, groups |-> groups, places |-> places,
      zones |-> zones, sources |-> sources, factoids |-> factoids,
      factoid_types |-> factoid_types, roles |-> roles, ranks |-> ranks,
      times |-> times, objects |-> objects, object_types |-> object_types,
      domains |-> domains, group_canon |-> group_canon, nations_set |-> nations_set,
      disciplines_set |-> disciplines_set, entity_class |-> entity_class,
      edges |-> edges, factoid_counter |-> factoid_counter, hash_of |-> hash_of ]

\* the fields after a method has run
Becomes(g) ==
    /\ persons' = g.persons /\ names' = g.names /\ groups' = g.groups
    /\ places' = g.places /\ zones' = g.zones /\ sources' = g.sources
    /\ factoids' = g.factoids /\ factoid_types' = g.factoid_types
    /\ roles' = g.roles /\ ranks' = g.ranks /\ times' = g.times
    /\ objects' = g.objects /\ object_types' = g.object_types
    /\ domains' = g.domains /\ group_canon' = g.group_canon
    /\ nations_set' = g.nations_set /\ disciplines_set' = g.disciplines_set
    /\ entity_class' = g.entity_class /\ edges' = g.edges
    /\ factoid_counter' = g.factoid_counter /\ hash_of' = g.hash_of

\* extractor = DaphneGraphExtractor(config_dir=config.CONFIG_DIR); record_count = 0
Init ==
    \E cfg \in ListConfigs, h \in HashFunctions :
       LET g == NewExtractor(cfg[1], cfg[2], h)
       IN /\ persons = g.persons /\ names = g.names /\ groups = g.groups
          /\ places = g.places /\ zones = g.zones /\ sources = g.sources
          /\ factoids = g.factoids /\ factoid_types = g.factoid_types
          /\ roles = g.roles /\ ranks = g.ranks /\ times = g.times
          /\ objects = g.objects /\ object_types = g.object_types
          /\ domains = g.domains /\ group_canon = g.group_canon
          /\ nations_set = g.nations_set /\ disciplines_set = g.disciplines_set
          /\ entity_class = g.entity_class /\ edges = g.edges
          /\ factoid_counter = g.factoid_counter /\ hash_of = g.hash_of
          /\ nations_file = cfg[1] /\ disciplines_file = cfg[2]
          /\ rec = EmptyDict /\ record_count = 0 /\ log = <<>>
          /\ line_no = 0 /\ pc = "reading"

\* a line of the input file: blank, the JSON text of a document, or text that
\* is not JSON
BlankText == [kind |-> "blank"]

JsonText(doc) == [kind |-> "json", value |-> doc]

BrokenText == [kind |-> "broken"]

\* json.loads(line): the document the text stands for, or JSONDecodeError
json_loads(line) ==
    IF line.kind = "json" THEN [raised |-> FALSE, ret |-> line.value]
    ELSE [raised |-> TRUE, ret |-> None]

\* export_csvs: one pass of the loop over the lines of the file. A blank line
\* is skipped; json.loads is called outside any try, so its exception leaves
\* the loop and export_csvs
ReadLine(line) ==
    /\ pc = "reading"
    /\ line_no' = line_no + 1
    /\ \/ /\ line.kind = "blank"
          /\ UNCHANGED <<fields, rec, record_count, pc>>
       \/ /\ line.kind # "blank"
          /\ json_loads(line).raised
          /\ pc' = "raised"
          /\ UNCHANGED <<fields, rec, record_count>>
       \/ /\ line.kind # "blank"
          /\ ~json_loads(line).raised
          /\ rec' = json_loads(line).ret
          /\ Becomes(process_record(Self, json_loads(line).ret))
          /\ record_count' = record_count + 1
          /\ pc' = pc
    /\ UNCHANGED <<nations_file, disciplines_file, log>>

\* export_csvs: one document of the stream is read and processed
ProcessRecord ==
    /\ record_count < MaxRecords
    /\ \E doc \in Documents : ReadLine(JsonText(doc))

\* export_csvs: a blank line is read
BlankLine ==
    /\ line_no - record_count < MaxBlankLines
    /\ ReadLine(BlankText)

\* export_csvs: a line that is not JSON is read
MalformedLine ==
    /\ pc = "reading"
    /\ ReadLine(BrokenText)

\* a direct call of _add_group
AddGroupCall ==
    /\ Len(log) < MaxCalls
    /\ \E raw_name \in GroupNames :
          LET r == add_group(Self, raw_name)
          IN /\ Becomes(r.g)
             /\ log' = Append(log, <<"_add_group", <<raw_name>>, r.ret>>)
    /\ UNCHANGED <<nations_file, disciplines_file, rec, record_count, line_no, pc>>

\* a direct call of _get_time_id
GetTimeIdCall ==
    /\ Len(log) < MaxCalls
    /\ \E ends \in EndpointPairs, q \in QualifierPairs :
          LET r == get_time_id(Self, ends[1], ends[2], q[1], q[2])
          IN /\ Becomes(r.g)
             /\ log' = Append(log, <<"_get_time_id", <<ends[1], ends[2], q[1], q[2]>>,
                                     r.ret>>)
    /\ UNCHANGED <<nations_file, disciplines_file, rec, record_count, line_no, pc>>

Next == ProcessRecord

\* a run of export_csvs over a stream of documents
Spec == Init /\ [][Next]_vars

NextStream == ProcessRecord \/ BlankLine \/ MalformedLine

\* a run of export_csvs over a file with blank and malformed lines
SpecStream == Init /\ [][NextStream]_vars

NextGroup == AddGroupCall

\* direct calls of _add_group on a fresh extractor
SpecGroup == Init /\ [][NextGroup]_vars

\* the characters of the raw texts: a letter, the three trimmed punctuation
\* marks and a blank
TextChars == {"a", ";", ",", ".", " "}

RECURSIVE TextsOfLen(_)
TextsOfLen(n) ==
    IF n = 0 THEN { <<>> }
    ELSE { <<c>> \o t : c \in TextChars, t \in TextsOfLen(n - 1) }

\* the arguments of TextCleaner.clean: None, every text of at most MaxTextLen
\* characters, and stop words in several spellings
RawTexts ==
    { None } \cup UNION { TextsOfLen(n) : n \in 0..MaxTextLen }
    \cup { <<"?">>, <<"i","n","c","o","n","n","u">>,
           <<"I","n","c","o","n","n","u",".">>,
           <<" ","N","o","n"," ","s","p","e","c","i","f","i","e",";">>,
           <<"i","n","c","o","n","n","u",";",".">> }

\* a direct call of TextCleaner.clean
CleanCall ==
    /\ Len(log) < MaxCleanCalls
    /\ \E text \in RawTexts :
          log' = Append(log, <<"clean", <<text>>, clean(text)>>)
    /\ UNCHANGED <<fields, nations_file, disciplines_file, rec, record_count,
                   line_no, pc>>

NextClean == CleanCall

INT == <<"I","N","T","E","R","V","A","L">>

\* date sub-objects: flat dates with and without a top-level type, an explicit
\* pair, a single explicit endpoint beside a flat date, a start sub-value
\* without a date, a null date, and sub-objects with no date at all
DateObjects ==
    { [type |-> BEFORE, date |-> d1350],
      [type |-> SIMPLE, date |-> d1350],
      [type |-> INT, date |-> d1350],
      [date |-> d14],
      [type |-> INT, startDate |-> [date |-> d1350, type |-> AFTER],
                     endDate |-> [date |-> d14, type |-> NEAR]],
      [type |-> AFTER, startDate |-> [date |-> d1350, type |-> BEFORE]],
      [type |-> NEAR, date |-> d14, endDate |-> [date |-> d1350]],
      [type |-> BEFORE, date |-> d14, startDate |-> [type |-> NEAR]],
      [type |-> AFTER, date |-> None],
      [type |-> SIMPLE],
      EmptyDict }

RECURSIVE DateLists(_)
DateLists(n) ==
    IF n = 0 THEN { <<>> }
    ELSE { <<d>> \o ds : d \in DateObjects, ds \in DateLists(n - 1) }

\* the meta arguments of extract_dates: no "dates" key, and every list of at
\* most MaxDates date sub-objects
DateMetas ==
    { EmptyDict } \cup { [dates |-> ds] : ds \in UNION { DateLists(n) : n \in 0..MaxDates } }

\* a direct call of extract_dates, the only call of its run: the function
\* keeps no state from one call to the next
ExtractDatesCall ==
    /\ log = <<>>
    /\ \E meta \in DateMetas :
          log' = Append(log, <<"extract_dates", <<meta>>, extract_dates(meta)>>)
    /\ UNCHANGED <<fields, nations_file, disciplines_file, rec, record_count,
                   line_no, pc>>

NextDates == ExtractDatesCall

NextTime == GetTimeIdCall

\* an extractor constructed without reference lists
InitBare ==
    Init /\ nations_file = NoFile /\ disciplines_file = NoFile
         /\ hash_of = [c \in Citations |-> 7]

\* direct calls of _get_time_id on a fresh extractor
SpecTime == InitBare /\ [][NextTime]_vars

\* direct calls of TextCleaner.clean
SpecClean == InitBare /\ [][NextClean]_vars

\* direct calls of extract_dates
SpecDates == InitBare /\ [][NextDates]_vars

----------------------------------------------------------------------------
(* Properties                                                              *)

\* a step in which export_csvs processed the document rec'
Processed == record_count' = record_count + 1

\* the positions of the edges of a type in an edge list
EdgesOfType(es, type) == { i \in DOMAIN es : es[i].type = type }

\* C1: every Factoid node is the from-endpoint of exactly one HAS_TYPE edge,
\* to its own factoidtype, and the to-endpoint of exactly one REFER_TO edge;
\* that edge comes from the Source 'SRC_' + id of the document whose
\* processing created the factoid, and stays as it is afterwards.
C1_FactoidTypeAndProvenance ==
    [][ \A fid \in DOMAIN factoids' :
          LET has == { i \in EdgesOfType(edges', "HAS_TYPE") : edges'[i].from_id = fid }
              ref == { i \in EdgesOfType(edges', "REFER_TO") : edges'[i].to_id = fid }
          IN /\ Cardinality(has) = 1
             /\ \A i \in has : edges'[i].to_id = Token(factoids'[fid].factoidtype)
             /\ Cardinality(ref) = 1
             /\ \A i \in ref :
                  IF fid \in DOMAIN factoids
                  THEN i \in DOMAIN edges /\ edges[i] = edges'[i]
                  ELSE edges'[i].from_id = SourceKey(rec'["_id"]) ]_vars

\* C1 witness: factoids created by two documents with different identifiers
C1_Witness ==
    \E i, j \in EdgesOfType(edges, "REFER_TO") : edges[i].from_id # edges[j].from_id

\* the HAS_TYPE edges in the order _make_factoid appended them: one per
\* factoid created, in creation order
CreationOrder == SelectSeq(edges, LAMBDA e : e.type = "HAS_TYPE")

\* C2: the k-th factoid created since construction has number k, and the
\* factoid identifiers are exactly those of 1..factoid_counter (strictly
\* increasing in creation order, none reused, no gap).
C2_SequentialFactoidIds ==
    /\ Len(CreationOrder) = factoid_counter
    /\ \A k \in 1..Len(CreationOrder) : CreationOrder[k].from_id = FactoidKey(k)
    /\ DOMAIN factoids = { FactoidKey(k) : k \in 1..factoid_counter }
    /\ \A k \in 1..factoid_counter : factoids[FactoidKey(k)].factoid_id = FactoidKey(k)

\* C2 witness: factoids numbered across two documents
C2_Witness == record_count = 2 /\ factoid_counter >= 3 /\ C1_Witness

\* the raw name, the cleaned name and the result of the i-th logged _add_group call
RawOf(l, i) == l[i][2][1]
CleanedOf(l, i) == clean_institution(RawOf(l, i))
ResultOf(l, i) == l[i][3]

\* a step that is a direct call
Called == Len(log') = Len(log) + 1

\* the earlier _add_group calls that returned a canonical name of the
\* case-insensitive form of the cleaned name cname
EarlierSameForm(cname) ==
    { i \in 1..Len(log) :
        Truthy(ResultOf(log, i)) /\ Lower(ResultOf(log, i)) = Lower(cname) }

\* C3: once _add_group has classified a name, a later call with a name of the
\* same case-insensitive cleaned form returns the canonical name of the first
\* such call, which is that call's own cleaned name (the first form seen), and
\* changes neither the recorded classes nor the Group and Domain nodes.
C3_ClassificationIsPermanent ==
    [][ Called =>
          LET cname == CleanedOf(log', Len(log'))
              seen == IF Truthy(cname) THEN EarlierSameForm(cname) ELSE {}
          IN seen # {} =>
               LET first == CHOOSE i \in seen : \A j \in seen : i <= j
               IN /\ ResultOf(log', Len(log')) = CleanedOf(log, first)
                  /\ ResultOf(log', Len(log')) = ResultOf(log, first)
                  /\ entity_class' = entity_class
                  /\ groups' = groups
                  /\ domains' = domains ]_vars

\* C3 witness: a second call with another spelling of the same
\* case-insensitive form returned the first form, not its own
C3_Witness ==
    \E i, j \in DOMAIN log :
       /\ i < j
       /\ Truthy(CleanedOf(log, i)) /\ Truthy(CleanedOf(log, j))
       /\ CleanedOf(log, i) # CleanedOf(log, j)
       /\ Lower(CleanedOf(log, i)) = Lower(CleanedOf(log, j))
       /\ ResultOf(log, j) = CleanedOf(log, i)

\* the classification key of the i-th logged _add_group call
KeyOf(l, i) == normalize_classification(CleanedOf(l, i))

\* C4: a name whose normalized key is in both reference sets is classified
\* discipline: it has a Domain node and no Group node.
C4_DisciplineWinsOverNation ==
    \A i \in DOMAIN log :
       (/\ Truthy(CleanedOf(log, i))
        /\ KeyOf(log, i) \in disciplines_set
        /\ KeyOf(log, i) \in nations_set) =>
          /\ ResultOf(log, i) \in DOMAIN entity_class
          /\ entity_class[ResultOf(log, i)] = "discipline"
          /\ ResultOf(log, i) \in DOMAIN domains
          /\ ResultOf(log, i) \notin DOMAIN groups

\* C4 witness: a name of both lists has been classified
C4_Witness ==
    \E i \in DOMAIN log :
       /\ Truthy(CleanedOf(log, i))
       /\ KeyOf(log, i) \in disciplines_set \cap nations_set

\* C5: a name that cleans to a string always gets a canonical name and a class;
\* when its key is in neither reference set the class is institution and the
\* node a Group of kind institution; a missing list file gives an empty set.
C5_DefaultsToInstitution ==
    /\ nations_file = NoFile => nations_set = {}
    /\ disciplines_file = NoFile => disciplines_set = {}
    /\ \A i \in DOMAIN log :
          Truthy(CleanedOf(log, i)) =>
            /\ Truthy(ResultOf(log, i))
            /\ ResultOf(log, i) \in DOMAIN entity_class
            /\ KeyOf(log, i) \notin disciplines_set \cup nations_set =>
                 /\ entity_class[ResultOf(log, i)] = "institution"
                 /\ ResultOf(log, i) \in DOMAIN groups
                 /\ groups[ResultOf(log, i)].group_type = "institution"
                 /\ ResultOf(log, i) \notin DOMAIN domains

\* C5 witness: with the discipline list missing and the nation list present, a
\* name that is in neither set has been classified
C5_Witness ==
    /\ disciplines_file = NoFile /\ nations_file # NoFile
    /\ \E i \in DOMAIN log :
          /\ RawOf(log, i) = cTh
          /\ entity_class[ResultOf(log, i)] = "institution"

\* the edges of a type that point to a node
EdgesTo(type, key) == { i \in EdgesOfType(edges, type) : edges[i].to_id = key }

\* C6: a name classified discipline has a Domain node and is linked from
\* factoids by IN_DOMAIN edges only, never by an AT_GROUP edge; a name
\* classified nation or institution is linked by AT_GROUP edges only.  Every
\* classified name is linked: by such an edge or, as a diocese, by a
\* TOOK_PLACE_AT_ZONE edge.
C6_ClassificationRouting ==
    /\ \A n \in DOMAIN entity_class :
          /\ EdgesTo("IN_DOMAIN", n) \cup EdgesTo("AT_GROUP", n)
                \cup EdgesTo("TOOK_PLACE_AT_ZONE", n) # {}
          /\ IF entity_class[n] = "discipline"
             THEN /\ n \in DOMAIN domains
                  /\ EdgesTo("AT_GROUP", n) = {}
                  /\ n \notin DOMAIN zones => EdgesTo("IN_DOMAIN", n) # {}
             ELSE /\ entity_class[n] \in {"nation", "institution"}
                  /\ EdgesTo("IN_DOMAIN", n) = {}
                  /\ n \notin DOMAIN zones => EdgesTo("AT_GROUP", n) # {}
    /\ \A i \in EdgesOfType(edges, "IN_DOMAIN") \cup EdgesOfType(edges, "AT_GROUP") :
          /\ edges[i].to_id \in DOMAIN entity_class
          /\ edges[i].from_id \in DOMAIN factoids
          /\ edges[i].to_label = (IF edges[i].type = "IN_DOMAIN" THEN "Domain" ELSE "GroupP")

\* C6 witness: one factoid linked to a discipline and to a nation
C6_Witness ==
    \E i \in EdgesOfType(edges, "IN_DOMAIN"), j \in EdgesOfType(edges, "AT_GROUP") :
       /\ edges[i].from_id = edges[j].from_id
       /\ entity_class[edges[i].to_id] = "discipline"
       /\ entity_class[edges[j].to_id] = "nation"

\* the earlier calls of _get_time_id with the arguments of the call just made
EarlierSameArgs == { i \in 1..Len(log) : log[i][2] = log'[Len(log')][2] }

\* C7: a call of _get_time_id with the four fields of an earlier call, whatever
\* was called in between, returns the key the earlier call returned and
\* leaves the Time nodes (their set and their attributes) as they are.
C7_TimeKeysAreIdempotent ==
    [][ (Called /\ EarlierSameArgs # {}) =>
          /\ \A i \in EarlierSameArgs : ResultOf(log', Len(log')) = ResultOf(log, i)
          /\ times' = times ]_vars

\* C7 witness: the same four fields resolved twice, to a node, with a call
\* that created another node in between
C7_Witness ==
    /\ Len(log) = 3
    /\ log[1][2] = log[3][2] /\ log[2][2] # log[1][2]
    /\ Truthy(ResultOf(log, 1)) /\ Truthy(ResultOf(log, 2))
    /\ ResultOf(log, 2) # ResultOf(log, 1)

\* whether the logged calls i and j differ only in that one qualifier, SIMPLE
\* in call i, is BEFORE, AFTER or NEAR in call j; which is 3 for the start
\* qualifier and 4 for the end qualifier
OnlyQualifierDiffers(i, j, which) ==
    /\ log[i][2][1] = log[j][2][1] /\ log[i][2][2] = log[j][2][2]
    /\ log[i][2][3] = SIMPLE /\ log[i][2][4] = SIMPLE
    /\ log[j][2][which] \in {BEFORE, AFTER, NEAR}
    /\ log[j][2][7 - which] = SIMPLE
    /\ ~(Trimmed(log[i][2][1]) = <<>> /\ Trimmed(log[i][2][2]) = <<>>)

\* C8 as claimed: for endpoints not both blank, changing only one qualifier
\* (start or end) from SIMPLE to BEFORE, AFTER or NEAR changes the key.
C8_AnyQualifierChangesKey ==
    \A i, j \in DOMAIN log : \A which \in {3, 4} :
       OnlyQualifierDiffers(i, j, which) => ResultOf(log, i) # ResultOf(log, j)

\* whether the key of the logged call i encodes the endpoint whose qualifier is
\* field which: the start when it is not blank; the end when it is not blank
\* and the start is blank or another value
EndpointIsKeyed(i, which) ==
    LET s == Trimmed(log[i][2][1])
        e == Trimmed(log[i][2][2])
    IN IF which = 3 THEN s # <<>> ELSE e # <<>> /\ s # e

\* C8 amended: changing, from SIMPLE to BEFORE, AFTER or NEAR, the qualifier of
\* an endpoint that the key encodes changes the key.
C8_KeyedQualifierChangesKey ==
    \A i, j \in DOMAIN log : \A which \in {3, 4} :
       (OnlyQualifierDiffers(i, j, which) /\ EndpointIsKeyed(i, which)) =>
          /\ Truthy(ResultOf(log, i)) /\ Truthy(ResultOf(log, j))
          /\ ResultOf(log, i) # ResultOf(log, j)

\* C8 witness: two different endpoints resolved with SIMPLE qualifiers and
\* with only the end qualifier changed to a non-SIMPLE value
C8_Witness ==
    \E i, j \in DOMAIN log : \E which \in {3, 4} :
       /\ OnlyQualifierDiffers(i, j, which) /\ EndpointIsKeyed(i, which)
       /\ which = 4 /\ Trimmed(log[i][2][1]) # <<>>

PersonFields == {"genre", "shortdesc", "status"}

\* the value the subject mention of a document supplies for a Person field
Supplied(doc, field) ==
    LET identity == Get(doc, "identity", EmptyDict)
    IN CASE field = "genre" -> FirstValue(Get(identity, "gender", <<>>))
         [] field = "shortdesc" -> FirstValue(Get(identity, "shortDescription", <<>>))
         [] field = "status" -> IdentityStatus(Get(identity, "status", ListOf(<<>>)))

\* C9: a non-empty gender, short description or status of a Person node never
\* changes again, and a blank one is filled by the first later mention that
\* supplies a non-empty value (only the subject mention of a document
\* supplies values; a relationship target supplies none).
C9_FirstNonEmptyWins ==
    [][ \A p \in DOMAIN persons : \A f \in PersonFields :
          /\ p \in DOMAIN persons'
          /\ persons[p][f] # <<>> => persons'[p][f] = persons[p][f]
          /\ (persons[p][f] = <<>> /\ Processed /\ PrimaryName(rec') = p
                /\ Supplied(rec', f) # <<>>) => persons'[p][f] = Supplied(rec', f)
          /\ (persons[p][f] = <<>> /\ ~(Processed /\ PrimaryName(rec') = p)) =>
                persons'[p][f] = <<>> ]_vars

\* C9 witness: two mentions of a person, the first supplying the gender and
\* the second the status and another gender: both are populated and the
\* gender is the first one
C9_Witness ==
    /\ record_count = 2
    /\ \E p \in DOMAIN persons :
          /\ PrimaryName(rec) = p
          /\ persons[p].status # <<>> /\ persons[p].status = Supplied(rec, "status")
          /\ persons[p].genre # <<>> /\ Supplied(rec, "genre") # <<>>
          /\ persons[p].genre # Supplied(rec, "genre")

\* whether the primary name of a document is missing, blank or a stop word
NoPrimaryName(doc) ==
    LET name_items == Get(Get(doc, "identity", EmptyDict), "name", <<>>)
    IN \/ name_items = <<>>
       \/ "value" \notin DOMAIN name_items[1]
       \/ Upper(Strip(name_items[1].value)) \in STOP_WORDS

\* the node registries, the edge list, the classification cache and the
\* factoid counter
Store ==
    <<persons, names, groups, places, zones, sources, factoids, factoid_types,
      roles, ranks, times, objects, object_types, domains, group_canon,
      entity_class, edges, factoid_counter>>

\* C10: processing a document whose primary name is missing, blank or a stop
\* word changes no node registry, nor the edge list, the classification cache
\* or the factoid counter, whatever its other sections.
C10_UnusableRecordIsDropped ==
    [][ (Processed /\ NoPrimaryName(rec')) => Store' = Store ]_vars

\* C10 witness: a document without a usable primary name and with every other
\* section was processed after a document that filled the store
C10_Witness ==
    /\ record_count = 2 /\ edges # <<>>
    /\ rec # EmptyDict /\ NoPrimaryName(rec)
    /\ {"curriculum", "origin", "bibliography", "textualProduction"} \subseteq DOMAIN rec

----------------------------------------------------------------------------
\* the edges of a type that leave a factoid
EdgesFrom(type, fid) == { i \in EdgesOfType(edges, type) : edges[i].from_id = fid }

\* C11: on a fresh extractor, the record named "Johannes de Parisiis," with the
\* one birth place "Parisius" and no other section leaves exactly one Person,
\* one Name, one Place and one Factoid, of type BIRTH, and that factoid has a
\* HAS_TYPE edge, a REFER_TO edge, a PARTICIPATE edge with role SUBJECT to the
\* person and a TOOK_PLACE_AT edge to the place.
C11_BirthScenario ==
    (record_count = 1 /\ rec = BirthRecord) =>
       /\ Cardinality(DOMAIN persons) = 1
       /\ Cardinality(DOMAIN names) = 1
       /\ Cardinality(DOMAIN places) = 1
       /\ DOMAIN factoids = {FactoidKey(1)}
       /\ factoids[FactoidKey(1)].factoidtype = "BIRTH"
       /\ \E i \in EdgesFrom("HAS_TYPE", FactoidKey(1)) : edges[i].to_id = Token("BIRTH")
       /\ \E i \in EdgesOfType(edges, "REFER_TO") :
             edges[i].to_id = FactoidKey(1) /\ edges[i].from_id \in DOMAIN sources
       /\ \E i \in EdgesFrom("PARTICIPATE", FactoidKey(1)) :
             edges[i].role = "SUBJECT" /\ edges[i].to_id \in DOMAIN persons
       /\ \E i \in EdgesFrom("TOOK_PLACE_AT", FactoidKey(1)) :
             edges[i].to_id \in DOMAIN places

C11_Witness ==
    /\ record_count = 1 /\ rec = BirthRecord
    /\ DOMAIN persons = {<<"J","o","h","a","n","n","e","s"," ","d","e"," ","P","a","r","i","s","i","i","s">>}
    /\ DOMAIN places = {<<"P","a","r","i","s","i","u","s">>}
    /\ factoid_counter = 1

----------------------------------------------------------------------------
\* C12: on a fresh extractor, a record whose only date entry is the flat date
\* "1350" with top-level type BEFORE and no startDate/endDate leaves exactly one
\* Time node: an Instant with begin "1350" and begin qualifier BEFORE, under a
\* key that carries BEFORE, and the record's factoid occurs at it.
C12_FlatDateScenario ==
    (record_count = 1 /\ rec = DateRecord) =>
       /\ DOMAIN times = {<<"I","_","B","E","F","O","R","E","_","1","3","5","0">>}
       /\ \A k \in DOMAIN times :
             /\ times[k].time_id = k
             /\ times[k].time_type = "Instant"
             /\ times[k].begin = d1350
             /\ times[k].begin_qualifier = BEFORE
             /\ times[k].finish = <<>>
             /\ \E i \in EdgesOfType(edges, "OCCURRED_AT") : edges[i].to_id = k

C12_Witness ==
    /\ record_count = 1 /\ rec = DateRecord
    /\ Cardinality(DOMAIN times) = 1
    /\ EdgesOfType(edges, "OCCURRED_AT") # {}

----------------------------------------------------------------------------
\* a step in which export_csvs consumed a line without processing a record
\* from it: the line was blank or was not JSON
LineNotProcessed == line_no' = line_no + 1 /\ record_count' = record_count

\* C13: a line that yields no record, an unparsable line included, is skipped:
\* the run goes on reading, so the well-formed lines after it are still
\* processed, and the store keeps what the earlier lines contributed.
C13_MalformedLineIsSkipped ==
    [][ LineNotProcessed => (pc' = "reading" /\ Store' = Store) ]_vars

----------------------------------------------------------------------------
\* the sections of a document that process_record reads after the identity
OptionalSections ==
    { "origin", "curriculum", "ecclesiasticalCareer", "professionalCareer",
      "relationalInsertion", "textualProduction", "bibliography" }

\* the section of a document that makes factoids of a type
SectionOf(ftype) ==
    CASE ftype \in {"BIRTH", "DIOCESE_ORIGIN"} -> "origin"
      [] ftype \in {"UNIVERSITY_STUDY", "ACADEMIC_GRADE", "COLLEGE_MEMBERSHIP"} -> "curriculum"
      [] ftype \in {"SECULAR_POSITION", "REGULAR_ORDER"} -> "ecclesiasticalCareer"
      [] ftype = "UNIVERSITY_TEACHING" -> "professionalCareer"
      [] ftype \in {"FAMILY_RELATION", "STUDENT_TEACHER"} -> "relationalInsertion"
      [] ftype = "AUTHORSHIP" -> "textualProduction"
      [] OTHER -> "identity"

\* the section an edge comes from: that of its factoid, the bibliography for a
\* citation link, the identity otherwise
EdgeSection(e, fs) ==
    IF e.type = "LINKED_TO" THEN "bibliography"
    ELSE IF e.from_label = "Factoid" THEN SectionOf(fs[e.from_id].factoidtype)
    ELSE IF e.to_label = "Factoid" THEN SectionOf(fs[e.to_id].factoidtype)
    ELSE "identity"

\* an edge without the sequence number of its factoid
Unnumbered(e) ==
    [k \in DOMAIN e |->
       IF \/ k = "from_id" /\ e.from_label = "Factoid"
          \/ k = "to_id" /\ e.to_label = "Factoid"
       THEN <<>> ELSE e[k]]

\* an edge with the display form of its organization lower-cased
CaseFolded(e) ==
    [k \in DOMAIN e |->
       IF k = "to_id" /\ e.to_label \in {"GroupP", "Domain", "Zone"}
       THEN Lower(e[k]) ELSE e[k]]

\* the edges a section added in a run of process_record from store g0 to
\* store g1, in order, without factoid numbers
Contribution(section, g0, g1) ==
    LET Shaped(es) == [i \in 1..Len(es) |-> Unnumbered(es[i])]
    IN Shaped(SelectSeq(SubSeq(g1.edges, Len(g0.edges) + 1, Len(g1.edges)),
                        LAMBDA e : EdgeSection(e, g1.factoids) = section))

\* the edges of a contribution with organization names lower-cased
Folded(es) == [i \in 1..Len(es) |-> CaseFolded(es[i])]

\* a document without its optional sections outside kept
Restrict(doc, kept) == [k \in DOMAIN doc \ (OptionalSections \ kept) |-> doc[k]]

\* what each optional section contributes in a run from store g0 to store g1
Contributions(g0, g1) == [k \in OptionalSections |-> Contribution(k, g0, g1)]

\* processing doc from store g0 with any subset of its optional sections
\* absent: a section left out contributes nothing and a section kept
\* contributes what it contributes in the run on the whole document,
\* literally or up to the letter case of organization names
SameContributions(g0, doc, literally) ==
    LET Compared(whole, part, kept) ==
          \A k \in OptionalSections :
             IF k \in kept
             THEN IF literally THEN part[k] = whole[k]
                  ELSE Folded(part[k]) = Folded(whole[k])
             ELSE part[k] = <<>>
        Subsets(whole) ==
          \A kept \in SUBSET (OptionalSections \cap DOMAIN doc) :
             Compared(whole, Contributions(g0, process_record(g0, Restrict(doc, kept))),
                      kept)
    IN Subsets(Contributions(g0, process_record(g0, doc)))

\* C14 as stated: for a record with a usable primary name, whatever subset of
\* its optional sections is absent, process_record completes, an absent
\* section contributes nothing and every section present contributes the
\* same factoid types and edges as when the others are present.
C14_SectionsContributeTheSame ==
    [][ (Processed /\ ~NoPrimaryName(rec')) =>
          SameContributions(Self, rec', TRUE) ]_vars

\* C14 amended: the same, where the edges of a section are compared up to the
\* letter case of the organization names they point to (the display form of
\* an organization is the first form seen, which another section may supply).
C14_SectionsContributeUpToDisplayForm ==
    [][ (Processed /\ ~NoPrimaryName(rec')) =>
          SameContributions(Self, rec', FALSE) ]_vars

\* C14 witness: a record with a career and no origin, curriculum or production
\* was processed and its career made factoids linked to organizations
C14_Witness ==
    /\ record_count >= 1 /\ ~NoPrimaryName(rec)
    /\ "ecclesiasticalCareer" \in DOMAIN rec
    /\ DOMAIN rec \cap {"origin", "curriculum", "textualProduction"} = {}
    /\ \E i \in EdgesOfType(edges, "AT_GROUP") :
          SectionOf(factoids[edges[i].from_id].factoidtype) = "ecclesiasticalCareer"

----------------------------------------------------------------------------
\* the edges of a type that leave a node
EdgesOut(type, key) == { i \in EdgesOfType(edges, type) : edges[i].from_id = key }

\* the persons that are the subject of a record processed so far
Subjects == { edges[i].from_id : i \in EdgesOfType(edges, "BELONGS_TO") }

\* every NAMED edge of a person points to a Name node other than the
\* person's own main name
VariantsAreOtherNames(p) ==
    \A i \in EdgesOut("NAMED", p) :
       edges[i].to_id # p /\ edges[i].to_id \in DOMAIN names

\* C15 as stated: every person that is the subject of a record owns exactly
\* one MAIN_NAME edge, to the Name node equal to the person key, and no NAMED
\* edge of the person points to its own main name.
C15_ExactlyOneMainName ==
    \A p \in Subjects :
       /\ Cardinality(EdgesOut("MAIN_NAME", p)) = 1
       /\ \A i \in EdgesOut("MAIN_NAME", p) : edges[i].to_id = p /\ p \in DOMAIN names
       /\ VariantsAreOtherNames(p)

\* C15 amended: every person that is the subject of a record owns one
\* MAIN_NAME edge for each record it is the subject of, all of them to the
\* Name node equal to the person key, and no NAMED edge of the person points
\* to its own main name.
C15_OneMainNamePerRecord ==
    \A p \in Subjects :
       /\ Cardinality(EdgesOut("MAIN_NAME", p)) = Cardinality(EdgesOut("BELONGS_TO", p))
       /\ \A i \in EdgesOut("MAIN_NAME", p) : edges[i].to_id = p /\ p \in DOMAIN names
       /\ VariantsAreOtherNames(p)

\* C15 witness: a person is the subject of two records, one of which lists
\* its own name among its variants, and has a variant name
C15_Witness ==
    \E p \in Subjects :
       /\ Cardinality(EdgesOut("MAIN_NAME", p)) = 2
       /\ EdgesOut("NAMED", p) # {}
       /\ \E nv \in Range(Get(Get(rec, "identity", EmptyDict), "nameVariant", <<>>)) :
             clean(Get(nv, "value", <<>>)) = p

----------------------------------------------------------------------------
\* the names under which _process_production stores a Domain node for a
\* document: the non-empty keys of textualProduction whose value is a dict
SubjectAreas(doc) ==
    LET tp == Get(doc, "textualProduction", DictOf(<<>>))
    IN IF NoPrimaryName(doc) \/ tp.t # "dict" THEN {}
       ELSE { tp.v[i].name :
                i \in { j \in 1..Len(tp.v) : tp.v[j].data.t = "dict" /\ tp.v[j].name # <<>> } }

\* a classified name has the node its class asks for, and every Group node
\* is that of a name classified nation or institution
ClassHasItsNode ==
    /\ \A n \in DOMAIN entity_class :
          IF entity_class[n] = "discipline"
          THEN n \in DOMAIN domains /\ n \notin DOMAIN groups
          ELSE /\ entity_class[n] \in {"nation", "institution"}
               /\ n \in DOMAIN groups
               /\ groups[n].group_type = entity_class[n]
    /\ \A k \in DOMAIN groups :
          k \in DOMAIN entity_class /\ entity_class[k] \in {"nation", "institution"}

\* C16 as stated: a name classified discipline has a Domain node and no Group
\* node; a name classified nation or institution has a Group node of that
\* kind and no Domain node; every Group node's key is classified nation or
\* institution.
C16_OneNodeKindPerClass ==
    /\ ClassHasItsNode
    /\ \A n \in DOMAIN entity_class :
          entity_class[n] # "discipline" => n \notin DOMAIN domains

\* C16 amended: a name classified discipline has a Domain node and no Group
\* node; a name classified nation or institution has a Group node of that
\* kind; every Group node's key is classified nation or institution; and a
\* Domain node is created only under a name classified discipline or under a
\* textual-production subject area of the record being processed, so that a
\* nation or institution has a Domain node of its name only when a record
\* names it as a subject area.
C16_DomainOnlyForDisciplineOrSubjectArea ==
    [][ /\ ClassHasItsNode'
        /\ \A n \in DOMAIN domains' \ DOMAIN domains :
              \/ n \in SubjectAreas(rec') /\ Processed
              \/ n \in DOMAIN entity_class' /\ entity_class'[n] = "discipline" ]_vars

\* C16 witness: an institution that the record also names as a subject area
\* has a Group node and a Domain node
C16_Witness ==
    \E n \in DOMAIN entity_class :
       /\ entity_class[n] = "institution"
       /\ n \in DOMAIN groups /\ n \in DOMAIN domains
       /\ n \in SubjectAreas(rec)

----------------------------------------------------------------------------
\* C17: every UNIVERSITY_STUDY factoid in the store has at least one
\* TOOK_PLACE_AT, AT_GROUP or IN_DOMAIN edge: a university item with no usable
\* place and no usable institution emits no factoid.
C17_StudyHasPlaceOrInstitution ==
    \A fid \in DOMAIN factoids :
       factoids[fid].factoidtype = "UNIVERSITY_STUDY" =>
          \E type \in {"TOOK_PLACE_AT", "AT_GROUP", "IN_DOMAIN"} : EdgesFrom(type, fid) # {}

----------------------------------------------------------------------------
\* the store g has the node keys and the edge list of the store after the step
SameKeysAndEdges(g) ==
    /\ DOMAIN g.persons = DOMAIN persons' /\ DOMAIN g.names = DOMAIN names'
    /\ DOMAIN g.groups = DOMAIN groups' /\ DOMAIN g.places = DOMAIN places'
    /\ DOMAIN g.zones = DOMAIN zones' /\ DOMAIN g.sources = DOMAIN sources'
    /\ DOMAIN g.factoids = DOMAIN factoids' /\ DOMAIN g.ranks = DOMAIN ranks'
    /\ DOMAIN g.times = DOMAIN times' /\ DOMAIN g.objects = DOMAIN objects'
    /\ DOMAIN g.object_types = DOMAIN object_types'
    /\ DOMAIN g.domains = DOMAIN domains'
    /\ g.edges = edges'

\* C18: two runs over the same input and the same reference lists agree on
\* every node key and on the edge list. Stated for one record: from the same
\* store, a second run of the interpreter, with whatever values its hash()
\* gives the citations, ends with the node keys and the edges of this run.
C18_RunsAgreeOnKeys ==
    [][ Processed =>
          \A h \in HashFunctions :
             SameKeysAndEdges(process_record([Self EXCEPT !.hash_of = h], rec')) ]_vars

----------------------------------------------------------------------------
\* the characters clean is said to trim from the end of its result
Trailing == {";", ",", "."} \cup Whitespace

\* C19: whatever the input, TextCleaner.clean returns either None or a
\* non-empty string that does not end in ';', ',', '.' or whitespace and that,
\* upper-cased, is not a stop word.
C19_CleanTrimsAndFilters ==
    \A i \in DOMAIN log :
       log[i][1] = "clean" =>
          \/ log[i][3] = None
          \/ /\ log[i][3] # <<>>
             /\ log[i][3][Len(log[i][3])] \notin Trailing
             /\ Upper(log[i][3]) \notin STOP_WORDS

----------------------------------------------------------------------------
\* the shape claimed for the Time node of a call with the trimmed endpoints s
\* and e, not both blank, and the qualifiers sq and eq
ClaimedShape(node, s, e, sq, eq) ==
    IF s # <<>> /\ e # <<>> /\ s # e
    THEN /\ node.time_type = "TimeInterval"
         /\ node.begin = s /\ node.finish = e
         /\ node.begin_qualifier = sq /\ node.end_qualifier = eq
    ELSE /\ node.time_type = "Instant"
         /\ node.begin = (IF s # <<>> THEN s ELSE e)
         /\ node.begin_qualifier = (IF s # <<>> THEN sq ELSE eq)
         /\ node.finish = <<>>

\* whether the call logged last in l resolved to a node of the claimed shape
\* in the Time nodes after, given the Time nodes before
ResolvedAsClaimed(l, before, after) ==
    LET Shaped(ret, s, e, sq, eq) ==
          IF s = <<>> /\ e = <<>>
          THEN ret = None /\ after = before
          ELSE /\ ret # None /\ ret \in DOMAIN after
               /\ ClaimedShape(after[ret], s, e, sq, eq)
               /\ \A k \in DOMAIN before : k \in DOMAIN after /\ after[k] = before[k]
               /\ DOMAIN after \subseteq DOMAIN before \cup {ret}
    IN Shaped(ResultOf(l, Len(l)), Trimmed(l[Len(l)][2][1]), Trimmed(l[Len(l)][2][2]),
              l[Len(l)][2][3], l[Len(l)][2][4])

\* C20: _get_time_id returns None and leaves the Time nodes alone exactly when
\* both endpoints are blank; when both are non-blank and different the node
\* under the returned key is a TimeInterval with both endpoints and both
\* qualifiers; in every other case it is an Instant whose begin is the one
\* endpoint present (the start when both are equal), with that endpoint's
\* qualifier and an empty finish.
C20_ResolvedTimeShape ==
    [][ Called => ResolvedAsClaimed(log', times, times') ]_vars

\* C20 witness: among the calls made, one with both endpoints blank, one that
\* resolved two different endpoints and one that resolved two equal endpoints
\* with a qualified start
C20_Witness ==
    /\ Len(log) = 3
    /\ \E i \in DOMAIN log :
          Trimmed(log[i][2][1]) = <<>> /\ Trimmed(log[i][2][2]) = <<>>
    /\ \E i \in DOMAIN log :
          /\ Trimmed(log[i][2][1]) \notin {<<>>, Trimmed(log[i][2][2])}
          /\ Trimmed(log[i][2][2]) # <<>>
          /\ times[ResultOf(log, i)].time_type = "TimeInterval"
    /\ \E i \in DOMAIN log :
          /\ Trimmed(log[i][2][1]) # <<>>
          /\ Trimmed(log[i][2][1]) = Trimmed(log[i][2][2])
          /\ log[i][2][1] # log[i][2][2]
          /\ log[i][2][3] = BEFORE
          /\ times[ResultOf(log, i)].time_type = "Instant"

----------------------------------------------------------------------------
\* whether entry is the tuple claimed for the date sub-object d: an explicit
\* endpoint takes the date and the qualifier of its own sub-value; without an
\* explicit start the flat date, when there is one, is the start, qualified
\* by the top-level type if that is BEFORE, AFTER or NEAR and SIMPLE if not
EntryAsClaimed(d, entry) ==
    LET Claimed(sd, ed, flat, top) ==
          /\ IF DOMAIN sd # {}
             THEN /\ "start_date" \in DOMAIN entry
                  /\ entry.start_date = Get(sd, "date", None)
                  /\ entry.start_qualifier = Get(sd, "type", SIMPLE)
             ELSE IF flat # None
                  THEN /\ "start_date" \in DOMAIN entry
                       /\ entry.start_date = flat
                       /\ entry.start_qualifier =
                            (IF top \in {BEFORE, AFTER, NEAR} THEN top ELSE SIMPLE)
                  ELSE /\ "start_date" \notin DOMAIN entry
                       /\ entry.start_qualifier = SIMPLE
          /\ IF DOMAIN ed # {}
             THEN /\ "end_date" \in DOMAIN entry
                  /\ entry.end_date = Get(ed, "date", None)
                  /\ entry.end_qualifier = Get(ed, "type", SIMPLE)
             ELSE /\ "end_date" \notin DOMAIN entry
                  /\ entry.end_qualifier = SIMPLE
    IN Claimed(Get(d, "startDate", EmptyDict), Get(d, "endDate", EmptyDict),
               Get(d, "date", None), Get(d, "type", SIMPLE))

----------------------------------------------------------------------------
\* the factoid types in the order claimed for one record
ClaimedTypeOrder ==
    << "ACTIVITY_PERIOD", "LIFE_PERIOD", "BIRTH", "DIOCESE_ORIGIN", "UNIVERSITY_STUDY",
       "ACADEMIC_GRADE", "COLLEGE_MEMBERSHIP", "SECULAR_POSITION", "REGULAR_ORDER",
       "UNIVERSITY_TEACHING", "FAMILY_RELATION", "STUDENT_TEACHER", "AUTHORSHIP" >>

\* the edges the step appended
NewEdges == SubSeq(edges', Len(edges) + 1, Len(edges'))

\* whether an edge starts or ends at a factoid
AtFactoid(e) == e.from_label = "Factoid" \/ e.to_label = "Factoid"

\* whether the factoids whose HAS_TYPE edges are created, a sequence in
\* creation order, carry the numbers after n and types in the claimed order
NumberedInTypeOrder(created, n, nodes) ==
    /\ \A i \in DOMAIN created : created[i].from_id = FactoidKey(n + i)
    /\ \A i, j \in DOMAIN created :
          i < j => IndexOf(nodes[created[i].from_id].factoidtype, ClaimedTypeOrder)
                     <= IndexOf(nodes[created[j].from_id].factoidtype, ClaimedTypeOrder)

\* C22: the factoids of one record are created, and numbered, in the fixed
\* order of the types from ACTIVITY_PERIOD to AUTHORSHIP, after the record's
\* BELONGS_TO and MAIN_NAME edges and before its LINKED_TO edges, and every
\* factoid of an earlier record has a smaller number than they have.
C22_FixedSectionOrder ==
    [][ Processed =>
          /\ NumberedInTypeOrder(SelectSeq(NewEdges, LAMBDA e : e.type = "HAS_TYPE"),
                                 factoid_counter, factoids')
          /\ \A i, j \in DOMAIN NewEdges :
                /\ (NewEdges[i].type \in {"BELONGS_TO", "MAIN_NAME"} /\ AtFactoid(NewEdges[j]))
                      => i < j
                /\ (AtFactoid(NewEdges[i]) /\ NewEdges[j].type = "LINKED_TO") => i < j
          /\ \A k, l \in 1..factoid_counter' :
                (FactoidKey(k) \in DOMAIN factoids
                   /\ FactoidKey(l) \in DOMAIN factoids' \ DOMAIN factoids) => k < l
          /\ DOMAIN factoids' = { FactoidKey(k) : k \in 1..factoid_counter' } ]_vars

\* C22 witness: a second record has been processed after one that left
\* factoids, the store holds factoids of eleven types, and bibliography edges
C22_Witness ==
    /\ record_count = 2
    /\ \E i, j \in EdgesOfType(edges, "REFER_TO") : edges[i].from_id # edges[j].from_id
    /\ Cardinality({ factoids[f].factoidtype : f \in DOMAIN factoids }) >= 11
    /\ EdgesOfType(edges, "LINKED_TO") # {}
    /\ EdgesOfType(edges, "MAIN_NAME") # {}

----------------------------------------------------------------------------
\* the items of a document that emit factoids of the type ftype, for the four
\* types whose items carry raw places or institutions
MarkedItems(doc, ftype) ==
    CASE ftype = "BIRTH" -> Get(Get(doc, "origin", EmptyDict), "birthPlace", <<>>)
      [] ftype = "UNIVERSITY_STUDY" ->
            Get(Get(doc, "curriculum", EmptyDict), "university", <<>>)
      [] ftype = "ACADEMIC_GRADE" -> Get(Get(doc, "curriculum", EmptyDict), "grades", <<>>)
      [] ftype = "UNIVERSITY_TEACHING" ->
            Get(Get(doc, "professionalCareer", EmptyDict), "universityFunction", <<>>)

\* whether an item with this meta emits a factoid of the type ftype
Emits(ftype, meta) ==
    CASE ftype = "BIRTH" -> safe_list(meta, "places") # <<>>
      [] ftype = "ACADEMIC_GRADE" -> TRUE
      [] OTHER -> safe_list(meta, "places") # <<>> \/ safe_list(meta, "institutions") # <<>>

\* whether at least one raw value under key of a meta contains the marker
RawMarked(meta, key) ==
    LET Marked(vals) ==
          \E i \in DOMAIN vals.v :
             IF vals.t = "list" THEN vals.v[i] # None /\ "?" \in Range(vals.v[i])
             ELSE vals.v[i] = "?"
    IN Marked(Get(meta, key, ListOf(<<>>)))

\* whether edge e carries the certainty claimed for a marked or unmarked item
CertaintyAsClaimed(e, marked) ==
    IF marked THEN "certainty" \in DOMAIN e /\ e.certainty = "uncertain"
    ELSE "certainty" \notin DOMAIN e

\* whether the factoids created of the type ftype (their HAS_TYPE edges, in
\* creation order) are those of the emitting items, each with the claimed
\* certainty on its place and group edges among the new edges es
ItemsAsClaimed(created, emitting, es) ==
    /\ Len(created) = Len(emitting)
    /\ \A k \in DOMAIN created : \A i \in DOMAIN es :
          es[i].from_id = created[k].from_id =>
             /\ es[i].type = "TOOK_PLACE_AT" =>
                   CertaintyAsClaimed(es[i], RawMarked(Get(emitting[k], "meta", EmptyDict),
                                                       "places"))
             /\ es[i].type \in {"AT_GROUP", "IN_DOMAIN"} =>
                   CertaintyAsClaimed(es[i], RawMarked(Get(emitting[k], "meta", EmptyDict),
                                                       "institutions"))

\* C23: for every birth-place, university, grade and university-function
\* item, each TOOK_PLACE_AT edge of its factoid carries certainty "uncertain"
\* exactly when a raw place value of the item contains "?", each AT_GROUP or
\* IN_DOMAIN edge exactly when a raw institution value does, otherwise the
\* edge has no certainty attribute; and no linked Place, Group or Domain key
\* contains the marker.
C23_UncertaintyReachesEdges ==
    [][ (Processed /\ ~NoPrimaryName(rec')) =>
          /\ \A ftype \in {"BIRTH", "UNIVERSITY_STUDY", "ACADEMIC_GRADE",
                             "UNIVERSITY_TEACHING"} :
                ItemsAsClaimed(
                   SelectSeq(NewEdges, LAMBDA e : e.type = "HAS_TYPE" /\ e.to_id = Token(ftype)),
                   SelectSeq(MarkedItems(rec', ftype),
                             LAMBDA item : Emits(ftype, Get(item, "meta", EmptyDict))),
                   NewEdges)
          /\ \A i \in DOMAIN NewEdges :
                NewEdges[i].type \in {"TOOK_PLACE_AT", "AT_GROUP", "IN_DOMAIN"} =>
                   /\ "?" \notin Range(NewEdges[i].to_id)
                   /\ NewEdges[i].to_id \in
                        DOMAIN places' \cup DOMAIN groups' \cup DOMAIN domains' ]_vars

\* C23 witness: a birth factoid with place edges marked uncertain because of
\* the second raw place, a study factoid whose group edges are uncertain and
\* whose place edge is not
C23_Witness ==
    /\ \E i, j \in EdgesOfType(edges, "TOOK_PLACE_AT") :
          /\ factoids[edges[i].from_id].factoidtype = "BIRTH"
          /\ "certainty" \in DOMAIN edges[i]
          /\ factoids[edges[j].from_id].factoidtype = "BIRTH"
          /\ "certainty" \notin DOMAIN edges[j]
    /\ \E i \in EdgesOfType(edges, "AT_GROUP"), j \in EdgesOfType(edges, "TOOK_PLACE_AT") :
          /\ edges[i].from_id = edges[j].from_id
          /\ factoids[edges[i].from_id].factoidtype = "UNIVERSITY_STUDY"
          /\ "certainty" \in DOMAIN edges[i] /\ edges[i].certainty = "uncertain"
          /\ "certainty" \notin DOMAIN edges[j]

----------------------------------------------------------------------------
\* the keys of the node registry an edge label names
Registry(label) ==
    CASE label = "Person" -> DOMAIN persons
      [] label = "Name" -> DOMAIN names
      [] label = "Source" -> DOMAIN sources
      [] label = "Factoid" -> DOMAIN factoids
      [] label = "FactoidType" -> DOMAIN factoid_types
      [] label = "Place" -> DOMAIN places
      [] label = "Zone" -> DOMAIN zones
      [] label = "GroupP" -> DOMAIN groups
      [] label = "Domain" -> DOMAIN domains
      [] label = "Time" -> DOMAIN times
      [] label = "Object" -> DOMAIN objects
      [] OTHER -> {}

\* C24: every edge has both endpoints in the registries its labels name,
\* every PARTICIPATE edge has one of the 8 pre-populated roles and, when its
\* rank is not empty, a Rank node for it, and every factoid has one of the 13
\* pre-populated factoid types, which are never added to or removed.
C24_ReferentialIntegrity ==
    /\ \A i \in DOMAIN edges :
          /\ edges[i].from_id \in Registry(edges[i].from_label)
          /\ edges[i].to_id \in Registry(edges[i].to_label)
          /\ edges[i].type = "PARTICIPATE" =>
                /\ Token(edges[i].role) \in DOMAIN roles
                /\ edges[i].rank # <<>> => edges[i].rank \in DOMAIN ranks
    /\ \A f \in DOMAIN factoids : Token(factoids[f].factoidtype) \in DOMAIN factoid_types
    /\ DOMAIN factoid_types = { Token(ft) : ft \in FACTOID_TYPES }
    /\ Cardinality(DOMAIN factoid_types) = 13
    /\ DOMAIN roles = { Token(r) : r \in ROLES }
    /\ Cardinality(DOMAIN roles) = 8

\* C24 witness: after two records, edges to every kind of node, among them a
\* PARTICIPATE edge with a rank
C24_Witness ==
    /\ record_count = 2
    /\ { edges[i].to_label : i \in DOMAIN edges } =
          { "Person", "Name", "Source", "Factoid", "FactoidType", "Place", "Zone",
            "GroupP", "Domain", "Time", "Object" }
    /\ \E i \in EdgesOfType(edges, "PARTICIPATE") : edges[i].rank # <<>>

----------------------------------------------------------------------------
\* C25: every ACTIVITY_PERIOD and every LIFE_PERIOD factoid has exactly one
\* OCCURRED_AT edge, to a Time node, and no factoid of any type has more than
\* one OCCURRED_AT edge.
C25_PeriodsHaveOneTime ==
    \A fid \in DOMAIN factoids :
       /\ Cardinality(EdgesFrom("OCCURRED_AT", fid)) <= 1
       /\ factoids[fid].factoidtype \in {"ACTIVITY_PERIOD", "LIFE_PERIOD"} =>
             /\ Cardinality(EdgesFrom("OCCURRED_AT", fid)) = 1
             /\ \A i \in EdgesFrom("OCCURRED_AT", fid) :
                   edges[i].to_label = "Time" /\ edges[i].to_id \in DOMAIN times

=============================================================================
